---- MODULE Spec2Model ----
(***************************************************************************)
(* Resilience layer and bulk e-mail engine of the web scraper application: *)
(*   core/email_sender.py   EmailSender.send_bulk_emails                   *)
(*   utils/retry_manager.py RetryManager, FallbackManager, CircuitBreaker  *)
(* Each subsystem has its own variables, initial condition and next-state  *)
(* relation; a specification of one subsystem holds the others still.      *)
(***************************************************************************)
EXTENDS Integers, Sequences, FiniteSets, TLC

(***************************************************************************)
(* Bounds of the model.                                                    *)
(***************************************************************************)
MaxEmails == 3
MaxConcurrent == 2
MaxAttempts == 3
MaxHandlers == 3
MaxThreshold == 2
MaxTimeout == 2
MaxTime == 3
MaxCalls == 4
MaxCallers == 2
MaxDelayAttempts == 4
MaxInstances == 3
MaxRetries == 3
MaxThreads == 3
MaxRequests == 5

VARIABLES
    \* ---- EmailSender.send_bulk_emails (email_sender.py:348-430)
    total_emails,       \* len(email_contents); the items are 1..total_emails
    max_concurrent,     \* the max_concurrent argument
    has_callback,       \* self.progress_callback is not None
    semaphore,          \* value of asyncio.Semaphore(max_concurrent)
    task,               \* task[i]: position of send_single_email(i, ...)
    send_calls,         \* send_calls[i]: times send_email was awaited for item i
    send_outcome,       \* send_outcome[i]: what that send_email call gave back
    successful_sends,
    failed_sends,
    failed_emails,      \* sequence of the items appended to failed_emails
    progress_events,    \* sequence of the "i + 1" values passed to the callback
    bulk_pc,            \* "running" | "returned" | "raised"
    send_result,        \* the SendResult that was returned
    stop_requested,     \* EmailManager._stop_operation.is_set()
    \* ---- RetryManager (retry_manager.py:61-262); p ranges over Paths
    retry_config,       \* the RetryConfig of the decorated operation
    r_pc,               \* r_pc[p]: "idle" | "calling" | "sleeping" | "returned" | "raised"
    attempt,            \* attempt[p]: the loop variable
    last_exception,     \* last_exception[p]
    r_calls,            \* r_calls[p]: invocations of func in this run
    r_sleeps,           \* r_sleeps[p]: the delays slept, in order
    r_exit,             \* r_exit[p]: "none" | "result" | "non_retryable" | "exhausted"
    r_raised,           \* r_raised[p]: the exception raised to the caller
    retry_stats,        \* retry_stats[p]: self.retry_stats[func_name], or NoStats
    op_outcomes,        \* what the wrapped operation did on its 1st, 2nd, ... call
    jitter_draws,       \* the random.uniform draws, as -1, 0, 1 times jitter_amount
    \* ---- FallbackManager (retry_manager.py:265-404)
    fallback_handlers,  \* operation name -> list of (priority, fallback_func)
    fallback_stats,     \* <<operation name, handler type>> -> counters
    fb_pc,              \* "idle" | "primary" | "handlers" | "returned" | "raised"
    fb_path,            \* "sync": execute_with_fallback, "async": the async one
    fb_name,            \* the operation_name argument
    fb_idx,             \* position of the for loop in the handler list
    fb_invoked,         \* the handlers called by this execution, in order
    fb_primary_exc,     \* the exception the primary raised in this execution
    fb_handling,        \* the exceptions being handled, innermost last
    fb_result,          \* who produced the returned result: "primary" or a func
    fb_raised,          \* the exception raised to the caller
    primary_calls,      \* calls of the primary function so far
    handler_calls,      \* calls of fallback handlers so far
    \* ---- CircuitBreaker (retry_manager.py:407-479); t ranges over callers
    failure_threshold,
    recovery_timeout,
    expected_exception, \* the class named by the expected_exception argument
    state,              \* self.state: "closed" | "open" | "half_open"
    failure_count,
    last_failure_time,  \* NoTime stands for None
    now,                \* what time.time() returns
    callers,            \* the threads that call the wrapped function
    caller_pc,          \* caller_pc[t]: "idle" | "invoking" (inside func)
    caller_raised,      \* caller_raised[t]: what t's last call raised
    probe_caller,       \* the caller that set "half_open" and is inside func, or 0
    calls_begun,        \* calls of the wrapper so far
    func_calls,         \* invocations of func so far
    cb_history,         \* the completed calls, in order of completion
    \* ---- EmailSender.send_email (email_sender.py:228-346)
    recipient,          \* the recipient argument, as a sequence of words
    subject_blank,      \* not subject.strip()
    body_blank,         \* not body.strip()
    smtp_attempts,      \* calls of _send_email_sync so far
    smtp_failures,      \* those of them that returned False
    body_success,       \* 'success' of the dict the body returned last, or "none"
    \* ---- RetryConfig.calculate_delay (retry_manager.py:39-58)
    delay_config,       \* the RetryConfig whose delays are computed
    delays,             \* delays[n + 1] = calculate_delay(n), computed so far
    \* ---- with_async_fallback around a method (retry_manager.py:524-531)
    call_op,            \* the decorated method that was called, or "none"
    call_args,          \* the wrapper's *args: the instance, then the positionals
    call_kwargs,        \* the wrapper's **kwargs
    call_pc,            \* "idle", "primary", "fallback", "returned", "raised"
    primary_bound,      \* how the primary's parameters were bound
    handler_bound,      \* how the handler's parameters were bound
    call_result,        \* "none", "primary" or "fallback": whose result came back
    \* ---- the constructors and the fallback registry (app_controller.py)
    modules_initialized, \* ApplicationController.initialize_modules has run
    instances,          \* instances[cls]: objects of the class constructed so far
    registry,           \* get_fallback_manager().fallback_handlers
    held,               \* the instance each attribute holds now, 0 for None
    \* ---- WebScraper.scrape_single_website (scraper.py:435-479)
    max_retries,        \* self.max_retries
    browser,            \* self.browser is set (the async context was entered)
    scrape_pc,          \* "idle", "fetching", "retry_sleep", "backoff_sleep",
                        \* "returned", "raised"
    backoff_attempt,    \* attempt of _retry_with_backoff
    decorator_attempt,  \* attempt of the retry decorator on _scrape_page_content
    page_fetches,       \* page.goto calls so far
    scrape_error,       \* the exception that was raised last
    \* ---- EmailManager (email_manager.py:21-167)
    email_sender,       \* self.email_sender is set
    operation_threads,  \* the threads started so far: target and is_alive()
    current_operation_thread, \* index of self._current_operation_thread, 0: None
    stop_event,         \* self._stop_operation.is_set()
    requests            \* the calls made so far: method and returned value

bulkVars == <<total_emails, max_concurrent, has_callback, semaphore, task,
              send_calls, send_outcome, successful_sends, failed_sends, failed_emails,
              progress_events, bulk_pc, send_result, stop_requested>>

retryVars == <<retry_config, r_pc, attempt, last_exception, r_calls, r_sleeps,
               r_exit, r_raised, retry_stats, op_outcomes, jitter_draws>>

fbVars == <<fallback_handlers, fallback_stats, fb_pc, fb_path, fb_name, fb_idx,
            fb_invoked, fb_primary_exc, fb_handling, fb_result, fb_raised,
            primary_calls, handler_calls>>

cbVars == <<failure_threshold, recovery_timeout, expected_exception, state,
            failure_count, last_failure_time, now, callers, caller_pc,
            caller_raised, probe_caller, calls_begun, func_calls, cb_history>>

seVars == <<recipient, subject_blank, body_blank, smtp_attempts, smtp_failures,
            body_success>>

delayVars == <<delay_config, delays>>

argVars == <<call_op, call_args, call_kwargs, call_pc, primary_bound,
             handler_bound, call_result>>

\* The wiring of the application around the retry manager.
regVars == <<modules_initialized, instances, registry, held>>

scrapeVars == <<max_retries, browser, scrape_pc, backoff_attempt,
                decorator_attempt, page_fetches, scrape_error>>

mgrVars == <<email_sender, operation_threads, current_operation_thread,
             stop_event, requests>>

wiringVars == <<argVars, regVars, scrapeVars, mgrVars>>

vars == <<bulkVars, retryVars, fbVars, cbVars, seVars, delayVars, wiringVars>>

\* What an action of one subsystem leaves alone.
OtherThanBulk == <<retryVars, fbVars, cbVars, seVars, delayVars, wiringVars>>
OtherThanRetry == <<bulkVars, fbVars, cbVars, seVars, delayVars, wiringVars>>
OtherThanFallback == <<bulkVars, retryVars, cbVars, seVars, delayVars, wiringVars>>
OtherThanBreaker == <<bulkVars, retryVars, fbVars, seVars, delayVars, wiringVars>>
OtherThanDelay == <<bulkVars, retryVars, fbVars, cbVars, seVars, wiringVars>>
managerVars == <<bulkVars, retryVars, fbVars, cbVars, seVars, delayVars>>
OtherThanArgs == <<managerVars, regVars, scrapeVars, mgrVars>>
OtherThanRegistry == <<managerVars, argVars, scrapeVars, mgrVars>>
OtherThanScrape == <<managerVars, argVars, regVars, mgrVars>>
OtherThanEmailManager == <<managerVars, argVars, regVars, scrapeVars>>

(***************************************************************************)
(* EmailSender.send_bulk_emails                                            *)
(***************************************************************************)
Items == 1..total_emails

NoResult == [total_emails |-> -1, successful_sends |-> -1,
             failed_sends |-> -1, failed_emails |-> <<>>]

\* What the awaited send_email gives back to send_single_email.
SendOutcomes == {"success", "failure", "raise"}
\* What the progress callback does when it is called.
CallbackOutcomes == {"returns", "raises"}

BulkInit ==
    /\ total_emails \in 0..MaxEmails
    /\ max_concurrent \in 0..MaxConcurrent
    /\ has_callback \in BOOLEAN
    /\ semaphore = max_concurrent
    /\ task = [i \in 1..total_emails |-> "pending"]
    /\ send_calls = [i \in 1..total_emails |-> 0]
    /\ send_outcome = [i \in 1..total_emails |-> "none"]
    /\ successful_sends = 0
    /\ failed_sends = 0
    /\ failed_emails = <<>>
    /\ progress_events = <<>>
    /\ bulk_pc = "running"
    /\ send_result = NoResult
    /\ stop_requested = FALSE

BulkIdle ==
    /\ total_emails = 0
    /\ max_concurrent = 0
    /\ has_callback = FALSE
    /\ semaphore = 0
    /\ task = <<>>
    /\ send_calls = <<>>
    /\ send_outcome = <<>>
    /\ successful_sends = 0
    /\ failed_sends = 0
    /\ failed_emails = <<>>
    /\ progress_events = <<>>
    /\ bulk_pc = "returned"
    /\ send_result = NoResult
    /\ stop_requested = FALSE

\* A semaphore that lets every task in.
SemaphoreFreeUnbounded == TRUE

\* asyncio.Semaphore.acquire returns at once only while the value is positive.
SemaphoreFree == semaphore > 0

\* The tasks between "async with semaphore" entry and exit.
InFlight == {i \in Items : task[i] \in {"sending", "sleeping"}}

\* "except Exception as e" of send_single_email catches what the body raises.
HandlerCatches == TRUE

\* asyncio.gather(*tasks, return_exceptions=True)
return_exceptions == TRUE

\* A run that gives up on the items not yet started once one item raised.
TaskAfterRaiseAbort(i) ==
    [j \in DOMAIN task |-> IF j = i \/ task[j] = "pending" THEN "done"
                                                           ELSE task[j]]

\* The positions of all tasks after the body of item i raised.
TaskAfterRaise(i) ==
    [task EXCEPT ![i] = IF HandlerCatches THEN "done" ELSE "escaped"]

\* async with semaphore: ... result = await self.send_email(...)
AcquireAndSend(i) ==
    /\ bulk_pc = "running"
    /\ task[i] = "pending"
    /\ \A j \in Items : j < i => task[j] # "pending"   \* tasks wait in FIFO order
    /\ SemaphoreFree
    /\ semaphore' = semaphore - 1
    /\ task' = [task EXCEPT ![i] = "sending"]
    /\ send_calls' = [send_calls EXCEPT ![i] = @ + 1]
    /\ UNCHANGED <<total_emails, max_concurrent, has_callback, send_outcome,
                   successful_sends,
                   failed_sends, failed_emails, progress_events, bulk_pc,
                   send_result, stop_requested>>

\* The except branch: failed_sends += 1; failed_emails.append({...})
\* applied to counters that the try body may already have changed.
ExceptBranch(i, succ, failed, femails) ==
    /\ successful_sends' = succ
    /\ failed_sends' = IF HandlerCatches THEN failed + 1 ELSE failed
    /\ failed_emails' = IF HandlerCatches THEN Append(femails, i) ELSE femails
    /\ task' = TaskAfterRaise(i)
    /\ semaphore' = semaphore + 1

\* send_email has returned or raised: the rest of the try body up to the
\* await asyncio.sleep(0.1), or the except branch and the semaphore release.
SendCompletes(i, out, cb) ==
    /\ bulk_pc = "running"
    /\ task[i] = "sending"
    /\ send_outcome' = [send_outcome EXCEPT ![i] = out]
    /\ IF out = "raise"
         THEN /\ ExceptBranch(i, successful_sends, failed_sends, failed_emails)
              /\ UNCHANGED progress_events
         ELSE LET succ == IF out = "success" THEN successful_sends + 1
                                              ELSE successful_sends
                  failed == IF out = "success" THEN failed_sends
                                                ELSE failed_sends + 1
                  femails == IF out = "success" THEN failed_emails
                                                 ELSE Append(failed_emails, i)
              IN  IF has_callback
                    THEN /\ progress_events' = Append(progress_events, i)
                         /\ IF cb = "raises"
                              THEN ExceptBranch(i, succ, failed, femails)
                              ELSE /\ successful_sends' = succ
                                   /\ failed_sends' = failed
                                   /\ failed_emails' = femails
                                   /\ task' = [task EXCEPT ![i] = "sleeping"]
                                   /\ UNCHANGED semaphore
                    ELSE /\ successful_sends' = succ
                         /\ failed_sends' = failed
                         /\ failed_emails' = femails
                         /\ task' = [task EXCEPT ![i] = "sleeping"]
                         /\ UNCHANGED <<semaphore, progress_events>>
    /\ UNCHANGED <<total_emails, max_concurrent, has_callback, send_calls,
                   bulk_pc, send_result, stop_requested>>

\* await asyncio.sleep(0.1) is over: leave "async with semaphore".
SleepDone(i) ==
    /\ bulk_pc = "running"
    /\ task[i] = "sleeping"
    /\ task' = [task EXCEPT ![i] = "done"]
    /\ semaphore' = semaphore + 1
    /\ UNCHANGED <<total_emails, max_concurrent, has_callback, send_calls,
                   send_outcome, successful_sends, failed_sends, failed_emails,
                   progress_events, bulk_pc, send_result, stop_requested>>

\* await asyncio.gather(...) is over; build and return the SendResult.
GatherAndReturn ==
    /\ bulk_pc = "running"
    /\ IF ~return_exceptions /\ \E i \in Items : task[i] = "escaped"
         THEN /\ bulk_pc' = "raised"
              /\ UNCHANGED send_result
         ELSE /\ \A i \in Items : task[i] \in {"done", "escaped"}
              /\ bulk_pc' = "returned"
              /\ send_result' = [total_emails |-> total_emails,
                                 successful_sends |-> successful_sends,
                                 failed_sends |-> failed_sends,
                                 failed_emails |-> failed_emails]
    /\ UNCHANGED <<total_emails, max_concurrent, has_callback, semaphore, task,
                   send_calls, send_outcome, successful_sends, failed_sends,
                   failed_emails, progress_events, stop_requested>>

\* EmailManager.stop_operation, called from the UI thread while the bulk run
\* is under way: self._stop_operation.set()
StopOperation ==
    /\ bulk_pc = "running"
    /\ ~stop_requested
    /\ stop_requested' = TRUE
    /\ UNCHANGED <<total_emails, max_concurrent, has_callback, semaphore, task,
                   send_calls, send_outcome, successful_sends, failed_sends,
                   failed_emails, progress_events, bulk_pc, send_result>>

BulkNext ==
    \/ \E i \in Items : AcquireAndSend(i) /\ UNCHANGED OtherThanBulk
    \/ \E i \in Items, out \in SendOutcomes, cb \in CallbackOutcomes :
          SendCompletes(i, out, cb) /\ UNCHANGED OtherThanBulk
    \/ \E i \in Items : SleepDone(i) /\ UNCHANGED OtherThanBulk
    \/ GatherAndReturn /\ UNCHANGED OtherThanBulk
    \/ StopOperation /\ UNCHANGED OtherThanBulk

(***************************************************************************)
(* Exceptions (utils/exceptions.py).  An exception is a record of its      *)
(* class, its message as a sequence of words, its retry_count attribute    *)
(* (NoAttr when the class has none) and its __cause__.                     *)
(***************************************************************************)
NoAttr == -1
NoException == [cls |-> "None", msg |-> <<>>, retry_count |-> NoAttr,
                cause |-> "None"]

\* class -> base class; ValueError stands for the library errors.
Parent ==
    [BaseScraperException |-> "Exception",
     ScraperException |-> "BaseScraperException",
     NetworkException |-> "ScraperException",
     ValidationException |-> "ScraperException",
     RetryableException |-> "ScraperException",
     AIException |-> "BaseScraperException",
     AIAuthenticationException |-> "AIException",
     EmailException |-> "BaseScraperException",
     EmailAuthenticationException |-> "EmailException",
     EmailSenderException |-> "Exception",          \* core/email_sender.py
     EmailSendException |-> "EmailSenderException", \* core/email_sender.py
     SMTPException |-> "Exception",
     PlaywrightTimeoutError |-> "Exception",
     ValueError |-> "Exception",
     Exception |-> "BaseException"]

RECURSIVE IsSubclass(_, _)
IsSubclass(c, base) ==
    IF c = base THEN TRUE
    ELSE IF c \in DOMAIN Parent THEN IsSubclass(Parent[c], base)
    ELSE FALSE

\* isinstance(exception, classes) for a tuple of classes
IsInstance(e, classes) == \E b \in classes : IsSubclass(e.cls, b)

\* RetryableException.__init__ sets retry_count; no other class has it.
NewException(c, m) ==
    [cls |-> c, msg |-> m,
     retry_count |-> IF IsSubclass(c, "RetryableException") THEN 0 ELSE NoAttr,
     cause |-> "None"]

\* str.lower() on the words the model uses.
Lower(w) ==
    CASE w = "Connection" -> "connection"
      [] w = "Timeout" -> "timeout"
      [] w = "Operation" -> "operation"
      [] w = "Async" -> "async"
      [] OTHER -> w

LowerAll(m) == [i \in 1..Len(m) |-> Lower(m[i])]

\* "pattern in error_message": the pattern's words occur consecutively.
Contains(m, pattern) ==
    \E i \in 1..(Len(m) - Len(pattern) + 1) :
        SubSeq(m, i, i + Len(pattern) - 1) = pattern

retryable_patterns ==
    {<<"timeout">>, <<"connection">>, <<"network">>, <<"temporary">>,
     <<"rate", "limit">>, <<"service", "unavailable">>,
     <<"internal", "server", "error">>, <<"bad", "gateway">>}

MessageMatches(e) ==
    \E pattern \in retryable_patterns : Contains(LowerAll(e.msg), pattern)

\* A classifier without the message check.
IsRetryableByTypeOnly(e, config) ==
    \/ IsInstance(e, config.retryable_exceptions)
    \/ IsInstance(e, {"RetryableException"})

\* RetryManager._is_retryable_exception
IsRetryableException(e, config) ==
    \/ IsInstance(e, config.retryable_exceptions)
    \/ IsInstance(e, {"RetryableException"})
    \/ MessageMatches(e)

(***************************************************************************)
(* FallbackManager                                                         *)
(***************************************************************************)
OpNames == {"send_email", "scrape_page_content"}
Priorities == {1, 3, 5}

\* What the primary function and a fallback handler can raise.
PrimaryErrors ==
    {NewException("NetworkException", <<"host", "unreachable">>),
     NewException("ValidationException", <<"invalid", "input">>)}

HandlerError(h) == NewException("ValueError", <<"fallback", ToString(h.func)>>)

NoCounters == [attempts |-> 0, successes |-> 0, failures |-> 0]

\* FallbackManager._update_fallback_stats
UpdateFallbackStats(stats, name, handler_type, success) ==
    LET key == <<name, handler_type>>
        old == IF key \in DOMAIN stats THEN stats[key] ELSE NoCounters
        new == [attempts |-> old.attempts + 1,
                successes |-> old.successes + (IF success THEN 1 ELSE 0),
                failures |-> old.failures + (IF success THEN 0 ELSE 1)]
    IN  [k \in DOMAIN stats \cup {key} |-> IF k = key THEN new ELSE stats[k]]

FallbackType(h) == "fallback_" \o ToString(h.priority)

\* list.sort(key=lambda x: x[0]): a stable sort on the priority.
RECURSIVE InsertByPriority(_, _)
InsertByPriority(sorted, h) ==
    IF sorted = <<>> THEN <<h>>
    ELSE IF h.priority < Head(sorted).priority THEN <<h>> \o sorted
    ELSE <<Head(sorted)>> \o InsertByPriority(Tail(sorted), h)

RECURSIVE SortByPriority(_)
SortByPriority(list) ==
    IF list = <<>> THEN <<>>
    ELSE InsertByPriority(SortByPriority(SubSeq(list, 1, Len(list) - 1)),
                          list[Len(list)])

\* A registration that only appends.
AppendOnly(list, h) == Append(list, h)

\* "append((priority, fallback_func))" followed by "sort(key=...)"
AppendAndSort(list, h) == SortByPriority(Append(list, h))

\* All handlers registered so far, over all operation names.
Registered ==
    {h \in UNION {{fallback_handlers[n][i] : i \in 1..Len(fallback_handlers[n])} :
                    n \in DOMAIN fallback_handlers} : TRUE}

FallbackFresh ==
    /\ fb_pc = "idle"
    /\ fb_path = "sync"
    /\ fb_idx = 0
    /\ fb_invoked = <<>>
    /\ fb_primary_exc = NoException
    /\ fb_handling = <<>>
    /\ fb_result = "none"
    /\ fb_raised = NoException
    /\ primary_calls = 0
    /\ handler_calls = 0
    /\ fallback_stats = <<>>

\* FallbackManager.__init__
FallbackInit ==
    /\ fallback_handlers = <<>>
    /\ fb_name = "send_email"
    /\ FallbackFresh

FallbackIdle ==
    /\ fallback_handlers = <<>>
    /\ fb_name = "send_email"
    /\ FallbackFresh

\* FallbackManager.register_fallback; func numbers the registered callables.
\* Registration is done by the constructors of the components, before the
\* operations of the component are called.
RegisterFallback(name, priority) ==
    /\ fb_pc = "idle"
    /\ Cardinality(Registered) < MaxHandlers
    /\ LET h == [priority |-> priority, func |-> Cardinality(Registered) + 1]
           old == IF name \in DOMAIN fallback_handlers
                    THEN fallback_handlers[name] ELSE <<>>
       IN  fallback_handlers' =
             [n \in DOMAIN fallback_handlers \cup {name} |->
                 IF n = name THEN AppendAndSort(old, h) ELSE fallback_handlers[n]]
    /\ UNCHANGED <<fallback_stats, fb_pc, fb_path, fb_name, fb_idx, fb_invoked,
                   fb_primary_exc, fb_handling, fb_result, fb_raised,
                   primary_calls, handler_calls>>

\* execute_with_fallback / execute_async_with_fallback is entered.
FallbackEnter(p, name) ==
    /\ fb_pc \in {"idle", "returned", "raised"}
    /\ fb_pc' = "primary"
    /\ fb_path' = p
    /\ fb_name' = name
    /\ fb_idx' = 0
    /\ fb_invoked' = <<>>
    /\ fb_primary_exc' = NoException
    /\ fb_handling' = <<>>
    /\ fb_result' = "none"
    /\ fb_raised' = NoException
    /\ UNCHANGED <<fallback_handlers, fallback_stats, primary_calls,
                   handler_calls>>

\* An exception context that keeps the handler's error as the current one.
AfterInnerExceptStale(handling) == handling

\* Leaving "except Exception as fallback_error": the exception being
\* handled is again the one of the enclosing except block.
AfterInnerExcept(handling) == SubSeq(handling, 1, Len(handling) - 1)

\* The bare "raise": re-raises the exception currently being handled.
BareRaise(handling) == handling[Len(handling)]

\* result = primary_func(*args, **kwargs), and on failure the entry of
\* "except Exception as e" up to the first handler call.
FallbackPrimary(out) ==
    /\ fb_pc = "primary"
    /\ primary_calls' = primary_calls + 1
    /\ IF out = NoException
         THEN /\ fallback_stats' =
                    UpdateFallbackStats(fallback_stats, fb_name, "primary", TRUE)
              /\ fb_pc' = "returned"
              /\ fb_result' = "primary"
              /\ UNCHANGED <<fb_primary_exc, fb_handling, fb_idx, fb_raised>>
         ELSE /\ fallback_stats' =
                    UpdateFallbackStats(fallback_stats, fb_name, "primary", FALSE)
              /\ fb_primary_exc' = out
              /\ fb_handling' = <<out>>
              /\ IF fb_name \in DOMAIN fallback_handlers
                   THEN /\ fb_pc' = "handlers"
                        /\ fb_idx' = 1
                        /\ UNCHANGED fb_raised
                   ELSE /\ fb_pc' = "raised"
                        /\ fb_raised' = BareRaise(<<out>>)
                        /\ UNCHANGED fb_idx
              /\ UNCHANGED fb_result
    /\ UNCHANGED <<fallback_handlers, fb_path, fb_name, fb_invoked,
                   handler_calls>>

\* A loop that passes over the handler after a failed one.
SkipOneHandler(idx) == idx + 2

\* "continue": the for loop goes on with the next handler of the list.
NextHandler(idx) == idx + 1

\* One iteration of "for priority, fallback_func in self.fallback_handlers[...]".
FallbackHandler(ok) ==
    /\ fb_pc = "handlers"
    /\ fb_idx <= Len(fallback_handlers[fb_name])
    /\ LET h == fallback_handlers[fb_name][fb_idx]
       IN  /\ fb_invoked' = Append(fb_invoked, h)
           /\ handler_calls' = handler_calls + 1
           /\ fallback_stats' =
                 UpdateFallbackStats(fallback_stats, fb_name, FallbackType(h), ok)
           /\ IF ok
                THEN /\ fb_pc' = "returned"
                     /\ fb_result' = h.func
                     /\ UNCHANGED <<fb_idx, fb_handling, fb_raised>>
                ELSE LET handling ==
                           AfterInnerExcept(Append(fb_handling, HandlerError(h)))
                     IN  /\ fb_handling' = handling
                         /\ fb_idx' = NextHandler(fb_idx)
                         /\ IF NextHandler(fb_idx) <= Len(fallback_handlers[fb_name])
                              THEN UNCHANGED <<fb_pc, fb_raised>>
                              ELSE /\ fb_pc' = "raised"
                                   /\ fb_raised' = BareRaise(handling)
                         /\ UNCHANGED fb_result
    /\ UNCHANGED <<fallback_handlers, fb_path, fb_name, fb_primary_exc,
                   primary_calls>>

\* FallbackManager.execute_with_fallback
ExecuteWithFallback ==
    \/ \E name \in OpNames :
          fb_pc = "idle" /\ FallbackEnter("sync", name)
             /\ UNCHANGED OtherThanFallback
    \/ \E out \in {NoException} \cup PrimaryErrors :
          fb_path = "sync" /\ FallbackPrimary(out) /\ UNCHANGED OtherThanFallback
    \/ \E ok \in BOOLEAN :
          fb_path = "sync" /\ FallbackHandler(ok) /\ UNCHANGED OtherThanFallback

\* FallbackManager.execute_async_with_fallback
ExecuteAsyncWithFallback ==
    \/ \E name \in OpNames :
          fb_pc = "idle" /\ FallbackEnter("async", name)
             /\ UNCHANGED OtherThanFallback
    \/ \E out \in {NoException} \cup PrimaryErrors :
          fb_path = "async" /\ FallbackPrimary(out) /\ UNCHANGED OtherThanFallback
    \/ \E ok \in BOOLEAN :
          fb_path = "async" /\ FallbackHandler(ok) /\ UNCHANGED OtherThanFallback

FallbackNext ==
    \/ \E name \in OpNames, priority \in Priorities :
          RegisterFallback(name, priority) /\ UNCHANGED OtherThanFallback
    \/ ExecuteWithFallback
    \/ ExecuteAsyncWithFallback

(***************************************************************************)
(* RetryConfig.  Delays are in tenths of a second; backoff_multiplier is   *)
(* the fraction num/den.                                                   *)
(***************************************************************************)
RECURSIVE Pow(_, _)
Pow(b, n) == IF n = 0 THEN 1 ELSE b * Pow(b, n - 1)

\* A limit that is not applied.
NoCap(a, b) == a

Min(a, b) == IF a <= b THEN a ELSE b
Max(a, b) == IF a >= b THEN a ELSE b

\* A delay that ignores the attempt number.
SameDelayEveryAttempt(config, n, draw) == config.base_delay

\* RetryConfig.calculate_delay; draw is the random.uniform draw as a
\* multiple (-1, 0 or 1) of jitter_amount.
calculate_delay(config, n, draw) ==
    LET raw == CASE config.strategy = "exponential_backoff" ->
                      (config.base_delay * Pow(config.backoff_multiplier.num, n))
                          \div Pow(config.backoff_multiplier.den, n)
                 [] config.strategy = "linear_backoff" ->
                      config.base_delay * (n + 1)
                 [] config.strategy = "fixed_delay" -> config.base_delay
                 [] OTHER -> 0
        capped == Min(raw, config.max_delay)
        jitter_amount == capped \div 10
        jittered == IF config.jitter /\ capped > 0
                      THEN capped + draw * jitter_amount
                      ELSE capped
    IN  Max(0, jittered)

JitterDraws == {-1, 0, 1}

\* The RetryConfig objects the application constructs, max_attempts aside.
DefaultConfig ==
    [max_attempts |-> 3, base_delay |-> 10, max_delay |-> 600,
     backoff_multiplier |-> [num |-> 2, den |-> 1], jitter |-> TRUE,
     strategy |-> "exponential_backoff",
     retryable_exceptions |-> {"NetworkException", "AIException", "EmailException"}]

SendEmailConfig ==
    [max_attempts |-> 3, base_delay |-> 50, max_delay |-> 1200,
     backoff_multiplier |-> [num |-> 2, den |-> 1], jitter |-> TRUE,
     strategy |-> "exponential_backoff",
     retryable_exceptions |-> {"EmailException", "RetryableException", "SMTPException"}]

ScrapePageConfig ==
    [max_attempts |-> 3, base_delay |-> 20, max_delay |-> 300,
     backoff_multiplier |-> [num |-> 2, den |-> 1], jitter |-> TRUE,
     strategy |-> "exponential_backoff",
     retryable_exceptions |-> {"NetworkException", "RetryableException",
                               "PlaywrightTimeoutError"}]

GenerateEmailConfig ==
    [max_attempts |-> 3, base_delay |-> 20, max_delay |-> 600,
     backoff_multiplier |-> [num |-> 2, den |-> 1], jitter |-> TRUE,
     strategy |-> "exponential_backoff",
     retryable_exceptions |-> {"AIException", "RetryableException", "Exception"}]

SourceConfigs == {DefaultConfig, SendEmailConfig, ScrapePageConfig,
                  GenerateEmailConfig}

\* The same configurations with every max_attempts >= 1 up to the bound.
\* Configurations a caller may build: RetryConfig(jitter=False) and
\* RetryConfig(strategy=RetryStrategy.IMMEDIATE, jitter=False).
NoJitterConfig == [DefaultConfig EXCEPT !.jitter = FALSE]

ImmediateConfig ==
    [DefaultConfig EXCEPT !.strategy = "immediate", !.jitter = FALSE]

CallerConfigs == {NoJitterConfig, ImmediateConfig}

RetryConfigs ==
    {[c EXCEPT !.max_attempts = k] :
        c \in SourceConfigs \cup CallerConfigs, k \in 1..MaxAttempts}

(***************************************************************************)
(* RetryManager._execute_with_retry and _execute_async_with_retry          *)
(***************************************************************************)
Paths == {"sync", "async"}

\* What the wrapped operation can do on one call.
OpErrors ==
    {NewException("NetworkException", <<"host", "unreachable">>),
     NewException("ValidationException", <<"invalid", "input">>),
     NewException("ValidationException", <<"invalid", "Connection", "string">>),
     NewException("ValueError", <<"bad", "value">>),
     NewException("ValueError", <<"Timeout", "expired">>),
     NewException("AIAuthenticationException", <<"invalid", "api", "key">>),
     NewException("EmailAuthenticationException", <<"login", "refused">>),
     NewException("RetryableException", <<"try", "again">>)}

OpOutcomes == {NoException} \cup OpErrors   \* NoException: the call returned

NoStats == [total_calls |-> 0, successful_calls |-> 0, failed_calls |-> 0,
            total_attempts |-> 0, max_attempts_used |-> 0]

\* RetryManager._update_retry_stats
UpdateRetryStats(stats, attempts, success) ==
    [total_calls |-> stats.total_calls + 1,
     successful_calls |-> stats.successful_calls + (IF success THEN 1 ELSE 0),
     failed_calls |-> stats.failed_calls + (IF success THEN 0 ELSE 1),
     total_attempts |-> stats.total_attempts + attempts,
     max_attempts_used |-> Max(stats.max_attempts_used, attempts)]

RetryIdle ==
    /\ retry_config = DefaultConfig
    /\ r_pc = [p \in Paths |-> "finished"]
    /\ attempt = [p \in Paths |-> 0]
    /\ last_exception = [p \in Paths |-> NoException]
    /\ r_calls = [p \in Paths |-> 0]
    /\ r_sleeps = [p \in Paths |-> <<>>]
    /\ r_exit = [p \in Paths |-> "none"]
    /\ r_raised = [p \in Paths |-> NoException]
    /\ retry_stats = [p \in Paths |-> NoStats]
    /\ op_outcomes = <<>>
    /\ jitter_draws = <<>>

RetryInit ==
    /\ retry_config \in RetryConfigs
    /\ r_pc = [p \in Paths |-> "idle"]
    /\ attempt = [p \in Paths |-> 0]
    /\ last_exception = [p \in Paths |-> NoException]
    /\ r_calls = [p \in Paths |-> 0]
    /\ r_sleeps = [p \in Paths |-> <<>>]
    /\ r_exit = [p \in Paths |-> "none"]
    /\ r_raised = [p \in Paths |-> NoException]
    /\ retry_stats = [p \in Paths |-> NoStats]
    /\ op_outcomes = <<>>
    /\ jitter_draws = <<>>

\* An asynchronous path that raises the last error as it is.
ExhaustedAsyncUnwrapped(p, last, config) ==
    IF p = "async" THEN last
    ELSE [last EXCEPT !.cls = "RetryableException",
                      !.retry_count = config.max_attempts - 1]

\* An executor that raises the last error as it is.
ExhaustedUnwrapped(p, last, config) == last

\* The exception raised once all attempts failed (lines 150-161, 203-214).
ExhaustedException(p, last, config) ==
    IF IsInstance(last, {"BaseScraperException"})
      THEN IF last.retry_count # NoAttr
             THEN [last EXCEPT !.retry_count = config.max_attempts - 1]
             ELSE last
      ELSE [cls |-> "RetryableException",
            msg |-> (IF p = "async" THEN <<"Async", "operation">>
                                    ELSE <<"Operation">>)
                    \o <<"failed", "after", ToString(config.max_attempts),
                         "attempts:">> \o last.msg,
            retry_count |-> config.max_attempts - 1,
            cause |-> last]

\* A loop that gives up one attempt early.
NoMoreAttemptsEarly(a, config) == a >= config.max_attempts - 2

\* "if attempt >= config.max_attempts - 1": no attempt is left
NoMoreAttempts(a, config) == a >= config.max_attempts - 1

\* "for attempt in range(config.max_attempts)": a is a value of the range
InRange(a, config) == a < config.max_attempts

\* The wrapper is entered: func_name, last_exception = None, first iteration.
RetryEnter(p) ==
    /\ r_pc[p] = "idle"
    /\ attempt' = [attempt EXCEPT ![p] = 0]
    /\ last_exception' = [last_exception EXCEPT ![p] = NoException]
    /\ IF InRange(0, retry_config)
         THEN /\ r_pc' = [r_pc EXCEPT ![p] = "calling"]
              /\ UNCHANGED <<r_exit, r_raised>>
         ELSE /\ r_pc' = [r_pc EXCEPT ![p] = "raised"]
              /\ r_exit' = [r_exit EXCEPT ![p] = "exhausted"]
              /\ r_raised' = [r_raised EXCEPT
                    ![p] = ExhaustedException(p, NoException, retry_config)]
    /\ UNCHANGED <<retry_config, r_calls, r_sleeps, retry_stats, op_outcomes,
                   jitter_draws>>

\* The draws the executor is run with: the two ends of
\* random.uniform(-jitter_amount, jitter_amount), or none without jitter.
DrawsFor(config) == IF config.jitter THEN {-1, 1} ELSE {0}

\* The n-th call of the operation does the same on either path.
OutcomeAllowed(n, out) ==
    /\ n <= Len(op_outcomes) => out = op_outcomes[n]
    /\ op_outcomes' = IF n <= Len(op_outcomes) THEN op_outcomes
                                                ELSE Append(op_outcomes, out)

DrawAllowed(n, draw) ==
    /\ n <= Len(jitter_draws) => draw = jitter_draws[n]
    /\ jitter_draws' = IF n <= Len(jitter_draws) THEN jitter_draws
                                                  ELSE Append(jitter_draws, draw)

\* One iteration of "for attempt in range(config.max_attempts)": the call
\* of func and what follows until the function returns, raises or sleeps.
RetryIteration(p, out, draw) ==
    /\ r_pc[p] = "calling"
    /\ OutcomeAllowed(r_calls[p] + 1, out)
    /\ r_calls' = [r_calls EXCEPT ![p] = @ + 1]
    /\ IF out = NoException
         THEN \* result = func(...); return result
              /\ retry_stats' = IF attempt[p] > 0
                    THEN [retry_stats EXCEPT
                            ![p] = UpdateRetryStats(@, attempt[p] + 1, TRUE)]
                    ELSE retry_stats
              /\ r_pc' = [r_pc EXCEPT ![p] = "returned"]
              /\ r_exit' = [r_exit EXCEPT ![p] = "result"]
              /\ UNCHANGED <<last_exception, r_raised, r_sleeps, jitter_draws>>
         ELSE /\ last_exception' = [last_exception EXCEPT ![p] = out]
              /\ IF ~IsRetryableException(out, retry_config)
                   THEN \* raise
                        /\ retry_stats' = [retry_stats EXCEPT
                              ![p] = UpdateRetryStats(@, attempt[p] + 1, FALSE)]
                        /\ r_pc' = [r_pc EXCEPT ![p] = "raised"]
                        /\ r_exit' = [r_exit EXCEPT ![p] = "non_retryable"]
                        /\ r_raised' = [r_raised EXCEPT ![p] = out]
                        /\ UNCHANGED <<r_sleeps, jitter_draws>>
                   ELSE IF NoMoreAttempts(attempt[p], retry_config)
                     THEN \* break; all attempts failed
                          /\ retry_stats' = [retry_stats EXCEPT
                                ![p] = UpdateRetryStats(@, attempt[p] + 1, FALSE)]
                          /\ r_pc' = [r_pc EXCEPT ![p] = "raised"]
                          /\ r_exit' = [r_exit EXCEPT ![p] = "exhausted"]
                          /\ r_raised' = [r_raised EXCEPT
                                ![p] = ExhaustedException(p, out, retry_config)]
                          /\ UNCHANGED <<r_sleeps, jitter_draws>>
                     ELSE \* delay = config.calculate_delay(attempt); sleep
                          /\ DrawAllowed(attempt[p] + 1, draw)
                          /\ LET delay == calculate_delay(retry_config,
                                                          attempt[p], draw)
                             IN  /\ r_sleeps' = IF delay > 0
                                       THEN [r_sleeps EXCEPT ![p] = Append(@, delay)]
                                       ELSE r_sleeps
                                 /\ r_pc' = [r_pc EXCEPT ![p] = "sleeping"]
                          /\ UNCHANGED <<retry_stats, r_exit, r_raised>>
    /\ UNCHANGED <<retry_config, attempt>>

\* The sleep is over (or was skipped): the next iteration starts.
RetryWake(p) ==
    /\ r_pc[p] = "sleeping"
    /\ attempt' = [attempt EXCEPT ![p] = @ + 1]
    /\ IF InRange(attempt[p] + 1, retry_config)
         THEN /\ r_pc' = [r_pc EXCEPT ![p] = "calling"]
              /\ UNCHANGED <<r_exit, r_raised>>
         ELSE /\ r_pc' = [r_pc EXCEPT ![p] = "raised"]
              /\ r_exit' = [r_exit EXCEPT ![p] = "exhausted"]
              /\ r_raised' = [r_raised EXCEPT
                    ![p] = ExhaustedException(p, last_exception[p], retry_config)]
    /\ UNCHANGED <<retry_config, last_exception, r_calls, r_sleeps,
                   retry_stats, op_outcomes, jitter_draws>>

\* RetryManager._execute_with_retry (time.sleep between attempts)
ExecuteWithRetry ==
    \/ RetryEnter("sync") /\ UNCHANGED OtherThanRetry
    \/ \E out \in OpOutcomes, draw \in DrawsFor(retry_config) :
          RetryIteration("sync", out, draw) /\ UNCHANGED OtherThanRetry
    \/ RetryWake("sync") /\ UNCHANGED OtherThanRetry

\* RetryManager._execute_async_with_retry (await asyncio.sleep between attempts)
\* The two paths are exercised one after the other, the synchronous one
\* first, against the same behaviour of the operation.
ExecuteAsyncWithRetry ==
    \/ /\ r_pc["sync"] \in {"returned", "raised"}
       /\ RetryEnter("async")
       /\ UNCHANGED OtherThanRetry
    \/ \E out \in OpOutcomes, draw \in DrawsFor(retry_config) :
          RetryIteration("async", out, draw) /\ UNCHANGED OtherThanRetry
    \/ RetryWake("async") /\ UNCHANGED OtherThanRetry

RetryNext ==
    \/ ExecuteWithRetry
    \/ ExecuteAsyncWithRetry

(***************************************************************************)
(* The decorated operations: @async_retry_on_failure(RetryConfig(...))     *)
(* applied on top of @with_async_fallback(name), so that the function the  *)
(* retry loop calls is the fallback wrapper of the method body.            *)
(***************************************************************************)
DecoratedOps ==
    {[name |-> "send_email", config |-> SendEmailConfig],
     [name |-> "scrape_page_content", config |-> ScrapePageConfig],
     [name |-> "generate_cold_email", config |-> GenerateEmailConfig]}

\* The component was constructed: _register_fallbacks registered its
\* handler with priority=1, and the decorated method has not been called yet.
DecoratedInit ==
    \E op \in DecoratedOps, k \in 1..MaxAttempts :
        /\ retry_config = [op.config EXCEPT !.max_attempts = k]
        /\ r_pc = [p \in Paths |-> IF p = "async" THEN "idle" ELSE "finished"]
        /\ attempt = [p \in Paths |-> 0]
        /\ last_exception = [p \in Paths |-> NoException]
        /\ r_calls = [p \in Paths |-> 0]
        /\ r_sleeps = [p \in Paths |-> <<>>]
        /\ r_exit = [p \in Paths |-> "none"]
        /\ r_raised = [p \in Paths |-> NoException]
        /\ retry_stats = [p \in Paths |-> NoStats]
        /\ op_outcomes = <<>>
        /\ jitter_draws = <<>>
        /\ fallback_handlers = [n \in {op.name} |-> <<[priority |-> 1, func |-> 1]>>]
        /\ fb_name = op.name
        /\ FallbackFresh

\* The decorated method is called: the retry wrapper (async_retry) starts.
DecoratedCall ==
    /\ RetryEnter("async")
    /\ UNCHANGED <<bulkVars, fbVars, cbVars, seVars, delayVars, wiringVars>>

\* "result = await func(*args, **kwargs)" of the retry loop enters the
\* wrapper made by with_async_fallback.
WrappedEnter ==
    /\ r_pc["async"] = "calling"
    /\ fb_pc = "idle"
    /\ FallbackEnter("async", fb_name)
    /\ UNCHANGED <<bulkVars, retryVars, cbVars, seVars, delayVars, wiringVars>>

\* The method body runs inside execute_async_with_fallback.
WrappedPrimary(out) ==
    /\ r_pc["async"] = "calling"
    /\ FallbackPrimary(out)
    /\ UNCHANGED <<bulkVars, retryVars, cbVars, seVars, delayVars, wiringVars>>

\* A registered handler runs inside execute_async_with_fallback.
WrappedHandler(ok) ==
    /\ r_pc["async"] = "calling"
    /\ FallbackHandler(ok)
    /\ UNCHANGED <<bulkVars, retryVars, cbVars, seVars, delayVars, wiringVars>>

\* The fallback wrapper has returned or raised: the retry loop goes on
\* with that outcome.
WrappedLeave(draw) ==
    /\ fb_pc \in {"returned", "raised"}
    /\ RetryIteration("async",
                      IF fb_pc = "returned" THEN NoException ELSE fb_raised, draw)
    /\ fb_pc' = "idle"
    /\ UNCHANGED <<fallback_handlers, fallback_stats, fb_path, fb_name, fb_idx,
                   fb_invoked, fb_primary_exc, fb_handling, fb_result, fb_raised,
                   primary_calls, handler_calls>>
    /\ UNCHANGED <<bulkVars, cbVars, seVars, delayVars, wiringVars>>

\* The backoff sleep of the retry loop is over.
DecoratedWake ==
    /\ RetryWake("async")
    /\ UNCHANGED <<bulkVars, fbVars, cbVars, seVars, delayVars, wiringVars>>

DecoratedNext ==
    \/ DecoratedCall
    \/ WrappedEnter
    \/ \E out \in OpOutcomes : WrappedPrimary(out)
    \/ \E ok \in BOOLEAN : WrappedHandler(ok)
    \/ \E draw \in DrawsFor(retry_config) : WrappedLeave(draw)
    \/ DecoratedWake

(***************************************************************************)
(* CircuitBreaker                                                          *)
(***************************************************************************)
NoTime == -1

Threads == 1..MaxCallers

\* The classes the breaker may be constructed with: the default, Exception,
\* and a narrower one.
ExpectedClasses == {"Exception", "NetworkException"}

\* What the wrapped function raises when it fails.
BreakerErrors ==
    {NewException("NetworkException", <<"host", "unreachable">>),
     NewException("ValueError", <<"bad", "value">>)}

\* raise Exception("Circuit breaker is open - operation not allowed")
CircuitOpenError ==
    NewException("Exception",
                 <<"Circuit", "breaker", "is", "open", "-", "operation", "not",
                   "allowed">>)

\* One completed call: whether func was invoked, and what the call raised
\* (NoException: it returned).
Completed(inv, e) == [invoked |-> inv, exc |-> e]

\* CircuitBreaker.__init__, and the clock
BreakerFresh ==
    /\ state = "closed"
    /\ failure_count = 0
    /\ last_failure_time = NoTime
    /\ now = 0
    /\ caller_pc = [t \in Threads |-> "idle"]
    /\ caller_raised = [t \in Threads |-> NoException]
    /\ probe_caller = 0
    /\ calls_begun = 0
    /\ func_calls = 0
    /\ cb_history = <<>>

BreakerConfigured ==
    /\ failure_threshold \in 1..MaxThreshold
    /\ recovery_timeout \in 1..MaxTimeout
    /\ expected_exception \in ExpectedClasses

\* One thread calls the wrapped function, one call after the other.
BreakerInit ==
    /\ BreakerConfigured
    /\ callers = {1}
    /\ BreakerFresh

\* Several threads call the wrapped function.
BreakerThreadsInit ==
    /\ BreakerConfigured
    /\ callers = Threads
    /\ BreakerFresh

\* No breaker is in use (the repository constructs none).
BreakerIdle ==
    /\ failure_threshold = 5
    /\ recovery_timeout = 60
    /\ expected_exception = "Exception"
    /\ callers = {}
    /\ BreakerFresh

\* CircuitBreaker._should_attempt_reset
ShouldAttemptReset(last, clock, timeout) ==
    IF last = NoTime THEN TRUE ELSE clock - last >= timeout

\* "if self.failure_count >= self.failure_threshold" of _on_failure
ThresholdPassed(count, threshold) == count > threshold

ThresholdReached(count, threshold) == count >= threshold

\* CircuitBreaker._on_success
OnSuccess ==
    IF state = "half_open"
    THEN /\ state' = "closed"
         /\ failure_count' = 0
    ELSE UNCHANGED <<state, failure_count>>

\* CircuitBreaker._on_failure
OnFailure ==
    /\ failure_count' = failure_count + 1
    /\ last_failure_time' = now
    /\ state' = IF ThresholdReached(failure_count + 1, failure_threshold)
                THEN "open" ELSE state

CanCall(t) ==
    /\ t \in callers
    /\ caller_pc[t] = "idle"
    /\ calls_begun < MaxCalls

\* The state is "open" and _should_attempt_reset() is False: raise.
CallRejected(t) ==
    /\ CanCall(t)
    /\ state = "open"
    /\ ~ShouldAttemptReset(last_failure_time, now, recovery_timeout)
    /\ calls_begun' = calls_begun + 1
    /\ caller_raised' = [caller_raised EXCEPT ![t] = CircuitOpenError]
    /\ cb_history' = Append(cb_history, Completed(FALSE, CircuitOpenError))
    /\ UNCHANGED <<failure_threshold, recovery_timeout, expected_exception,
                   state, failure_count, last_failure_time, now, callers,
                   caller_pc, probe_caller, func_calls>>
    /\ UNCHANGED OtherThanBreaker

\* The state is "open" and _should_attempt_reset() is True: "half_open",
\* and func is invoked.
CallProbe(t) ==
    /\ CanCall(t)
    /\ state = "open"
    /\ ShouldAttemptReset(last_failure_time, now, recovery_timeout)
    /\ state' = "half_open"
    /\ probe_caller' = t
    /\ calls_begun' = calls_begun + 1
    /\ func_calls' = func_calls + 1
    /\ caller_pc' = [caller_pc EXCEPT ![t] = "invoking"]
    /\ UNCHANGED <<failure_threshold, recovery_timeout, expected_exception,
                   failure_count, last_failure_time, now, callers,
                   caller_raised, cb_history>>
    /\ UNCHANGED OtherThanBreaker

\* The state is not "open": func is invoked.
CallThrough(t) ==
    /\ CanCall(t)
    /\ state # "open"
    /\ calls_begun' = calls_begun + 1
    /\ func_calls' = func_calls + 1
    /\ caller_pc' = [caller_pc EXCEPT ![t] = "invoking"]
    /\ UNCHANGED <<failure_threshold, recovery_timeout, expected_exception,
                   state, failure_count, last_failure_time, now, callers,
                   caller_raised, probe_caller, cb_history>>
    /\ UNCHANGED OtherThanBreaker

\* func returned, or raised e: _on_success(), or the except clause.
FuncCompletes(t, e) ==
    /\ t \in callers
    /\ caller_pc[t] = "invoking"
    /\ IF e = NoException
       THEN OnSuccess /\ UNCHANGED last_failure_time
       ELSE IF IsInstance(e, {expected_exception})
            THEN OnFailure
            ELSE UNCHANGED <<state, failure_count, last_failure_time>>
    /\ caller_pc' = [caller_pc EXCEPT ![t] = "idle"]
    /\ caller_raised' = [caller_raised EXCEPT ![t] = e]
    /\ probe_caller' = IF probe_caller = t THEN 0 ELSE probe_caller
    /\ cb_history' = Append(cb_history, Completed(TRUE, e))
    /\ UNCHANGED <<failure_threshold, recovery_timeout, expected_exception,
                   now, callers, calls_begun, func_calls>>
    /\ UNCHANGED OtherThanBreaker

\* Time passes.
Tick ==
    /\ callers # {}
    /\ now < MaxTime
    /\ now' = now + 1
    /\ UNCHANGED <<failure_threshold, recovery_timeout, expected_exception,
                   state, failure_count, last_failure_time, callers, caller_pc,
                   caller_raised, probe_caller, calls_begun, func_calls,
                   cb_history>>
    /\ UNCHANGED OtherThanBreaker

\* CircuitBreaker._execute_with_circuit_breaker
BreakerNext ==
    \/ \E t \in Threads : CallRejected(t)
    \/ \E t \in Threads : CallProbe(t)
    \/ \E t \in Threads : CallThrough(t)
    \/ \E t \in Threads, e \in {NoException} \cup BreakerErrors : FuncCompletes(t, e)
    \/ Tick

(***************************************************************************)
(* EmailSender.send_email: the method body under its two decorators        *)
(***************************************************************************)
\* Addresses as sequences of words: local part, domain name, top level.
Recipients ==
    {<<"user", "example", "com">>, <<"ops", "network", "io">>, <<"nobody">>}

\* EmailModel.is_valid_email: local@domain.tld
IsValidEmail(addr) == Len(addr) >= 3

\* raise EmailSendException(f"Invalid recipient email: {recipient}") and the
\* two checks after it
InvalidRecipient(addr) ==
    NewException("EmailSendException", <<"Invalid", "recipient", "email">> \o addr)

EmptySubject ==
    NewException("EmailSendException",
                 <<"Email", "subject", "cannot", "be", "empty">>)

EmptyBody ==
    NewException("EmailSendException",
                 <<"Email", "body", "cannot", "be", "empty">>)

\* DatabaseManager.save_sent_email failed: the "except Exception" branch
\* raises EmailSendException(f"Unexpected error sending email to ...: ...")
UnexpectedError(addr) ==
    NewException("EmailSendException",
                 <<"Unexpected", "error", "sending", "email", "to">> \o addr
                     \o <<"database", "is", "locked">>)

\* No send_email call is being modelled.
SendEmailIdle ==
    /\ recipient = <<>>
    /\ subject_blank = FALSE
    /\ body_blank = FALSE
    /\ smtp_attempts = 0
    /\ smtp_failures = 0
    /\ body_success = "none"

\* An EmailSender was constructed (its handler registered with priority=1)
\* and send_email is about to be called with some arguments.
SendEmailInit ==
    /\ \E k \in 1..MaxAttempts :
          retry_config = [SendEmailConfig EXCEPT !.max_attempts = k]
    /\ r_pc = [p \in Paths |-> IF p = "async" THEN "idle" ELSE "finished"]
    /\ attempt = [p \in Paths |-> 0]
    /\ last_exception = [p \in Paths |-> NoException]
    /\ r_calls = [p \in Paths |-> 0]
    /\ r_sleeps = [p \in Paths |-> <<>>]
    /\ r_exit = [p \in Paths |-> "none"]
    /\ r_raised = [p \in Paths |-> NoException]
    /\ retry_stats = [p \in Paths |-> NoStats]
    /\ op_outcomes = <<>>
    /\ jitter_draws = <<>>
    /\ fallback_handlers = [n \in {"send_email"} |-> <<[priority |-> 1, func |-> 1]>>]
    /\ fb_name = "send_email"
    /\ FallbackFresh
    /\ recipient \in Recipients
    /\ subject_blank \in BOOLEAN
    /\ body_blank \in BOOLEAN
    /\ smtp_attempts = 0
    /\ smtp_failures = 0
    /\ body_success = "none"

\* What one run of the body does: the exception it raises, or NoException
\* when it returns its dict.  db_ok: save_sent_email worked.
BodyOutcome(db_ok) ==
    IF ~IsValidEmail(recipient) THEN InvalidRecipient(recipient)
    ELSE IF subject_blank THEN EmptySubject
    ELSE IF body_blank THEN EmptyBody
    ELSE IF ~db_ok THEN UnexpectedError(recipient)
    ELSE NoException

\* The body of send_email runs as the primary of execute_async_with_fallback.
\* sent: what _send_email_sync returns (it catches every exception of the
\* SMTP connection and of sendmail, and returns False).
SendEmailBody(db_ok, sent) ==
    /\ r_pc["async"] = "calling"
    /\ LET out == BodyOutcome(db_ok)
       IN  /\ FallbackPrimary(out)
           /\ IF out = NoException
                THEN /\ smtp_attempts' = smtp_attempts + 1
                     /\ smtp_failures' = smtp_failures + (IF sent THEN 0 ELSE 1)
                     /\ body_success' = sent
                ELSE UNCHANGED <<smtp_attempts, smtp_failures, body_success>>
    /\ UNCHANGED <<recipient, subject_blank, body_blank>>
    /\ UNCHANGED <<bulkVars, retryVars, cbVars, delayVars, wiringVars>>

SendEmailNext ==
    \/ DecoratedCall
    \/ WrappedEnter
    \/ \E db_ok \in BOOLEAN, sent \in BOOLEAN : SendEmailBody(db_ok, sent)
    \/ \E ok \in BOOLEAN : WrappedHandler(ok)
    \/ \E draw \in DrawsFor(retry_config) : WrappedLeave(draw)
    \/ DecoratedWake

(***************************************************************************)
(* RetryConfig.calculate_delay as a function of the configuration          *)
(***************************************************************************)
\* The dataclass checks none of its fields.  Delays in tenths of a second.
BaseDelays == {-10, 0, 10, 50}
Multipliers == {[num |-> 1, den |-> 2], [num |-> 1, den |-> 1],
                [num |-> 3, den |-> 2], [num |-> 2, den |-> 1]}
MaxDelays == {-10, 0, 30, 600}
Strategies == {"exponential_backoff", "linear_backoff", "fixed_delay", "immediate"}

DelayConfigs ==
    {[DefaultConfig EXCEPT !.base_delay = b, !.backoff_multiplier = m,
                           !.max_delay = x, !.strategy = st, !.jitter = j] :
        b \in BaseDelays, m \in Multipliers, x \in MaxDelays,
        st \in Strategies, j \in BOOLEAN}

DelayInit ==
    /\ delay_config \in DelayConfigs
    /\ delays = <<>>

DelayIdle ==
    /\ delay_config = DefaultConfig
    /\ delays = <<>>

\* calculate_delay(attempt) for the next attempt number, 0, 1, 2, ...
ComputeDelay(draw) ==
    /\ Len(delays) < MaxDelayAttempts
    /\ delay_config.jitter \/ draw = 0
    /\ delays' = Append(delays, calculate_delay(delay_config, Len(delays), draw))
    /\ UNCHANGED delay_config
    /\ UNCHANGED OtherThanDelay

DelayNext == \E draw \in JitterDraws : ComputeDelay(draw)

(***************************************************************************)
(* The arguments a fallback handler receives                               *)
(* with_async_fallback decorates the plain function of the class body, so  *)
(* the wrapper's *args begin with the instance; the handlers are           *)
(* registered as bound methods, self._fallback_...                         *)
(***************************************************************************)
\* The instance the decorated method is called on.
Instance == "self"

\* def send_email(self, recipient, subject, body, track_in_database=True),
\* def scrape_single_website(self, url), def generate_cold_email(self, website)
PrimaryParams ==
    [send_email |-> <<"self", "recipient", "subject", "body", "track_in_database">>,
     scrape_single_website |-> <<"self", "url">>,
     generate_cold_email |-> <<"self", "website">>]

\* def _fallback_log_email_only(self, recipient, subject, body,
\* track_in_database=True), def _fallback_scrape_basic(self, url),
\* def _fallback_generate_template_email(self, website)
HandlerParams ==
    [send_email |-> <<"self", "recipient", "subject", "body", "track_in_database">>,
     scrape_single_website |-> <<"self", "url">>,
     generate_cold_email |-> <<"self", "website">>]

DecoratedMethods == DOMAIN PrimaryParams

\* The parameters that have a default value.
Defaults(op) ==
    IF op = "send_email" THEN [n \in {"track_in_database"} |-> "True"]
                         ELSE [n \in {} |-> "True"]

\* The values a caller passes for a parameter.
ArgValues(n) ==
    CASE n = "recipient" -> {"user@example.com", "ops@network.io"}
      [] n = "subject" -> {"Hello", "Offer"}
      [] n = "body" -> {"Hi there", "Dear team"}
      [] n = "track_in_database" -> {"True", "False"}
      [] n = "url" -> {"https://a.example", "https://b.example"}
      [] n = "website" -> {"https://a.example", "https://b.example"}

\* The recipient, subject and body; the url; the website.
DomainParams(op) ==
    {PrimaryParams[op][i] : i \in 2..Len(PrimaryParams[op])} \ {"track_in_database"}

IndexOf(params, n) == CHOOSE i \in 1..Len(params) : params[i] = n

Names(params) == {params[i] : i \in 1..Len(params)}

NoBinding == [n \in {} |-> ""]

\* The call raises TypeError before the body runs.
BindTypeError == [ok |-> FALSE, bound |-> NoBinding]

\* Python's binding of a call f(*args, **kwargs) to the parameters of f:
\* too many positionals, an unexpected keyword, a parameter given both by
\* position and by keyword, or a parameter without a value is a TypeError.
Bind(params, defaults, args, kwargs) ==
    IF \/ Len(args) > Len(params)
       \/ \E k \in DOMAIN kwargs :
             \/ k \notin Names(params)
             \/ IndexOf(params, k) <= Len(args)
       \/ \E i \in (Len(args) + 1)..Len(params) :
             params[i] \notin (DOMAIN kwargs \cup DOMAIN defaults)
    THEN BindTypeError
    ELSE [ok |-> TRUE,
          bound |-> [n \in Names(params) |->
                       IF IndexOf(params, n) <= Len(args)
                       THEN args[IndexOf(params, n)]
                       ELSE IF n \in DOMAIN kwargs THEN kwargs[n]
                                                   ELSE defaults[n]]]

\* Calling the bound method self._fallback_...: Python puts the instance
\* the method is bound to in front of the positionals.
BindMethod(instance, params, defaults, args, kwargs) ==
    Bind(params, defaults, <<instance>> \o args, kwargs)

\* The ways instance.method(...) can be written: the first npos parameters
\* by position, others by keyword, a parameter with a default maybe left out.
MethodCalls(op) ==
    LET params == PrimaryParams[op]
        rest == Names(params) \ {"self"}
    IN  {[args |-> <<Instance>> \o [i \in 1..npos |-> vals[params[i + 1]]],
          kwargs |-> [n \in kw |-> vals[n]]] :
            <<vals, npos, kw>> \in
              {x \in [rest -> UNION {ArgValues(n) : n \in rest}]
                       \X (0..(Len(params) - 1)) \X SUBSET rest :
                  /\ \A n \in rest : x[1][n] \in ArgValues(n)
                  /\ Bind(params, Defaults(op),
                          <<Instance>> \o [i \in 1..x[2] |-> x[1][params[i + 1]]],
                          [n \in x[3] |-> x[1][n]]).ok}}

ArgsInit ==
    /\ call_op = "none"
    /\ call_args = <<>>
    /\ call_kwargs = NoBinding
    /\ call_pc = "idle"
    /\ primary_bound = BindTypeError
    /\ handler_bound = BindTypeError
    /\ call_result = "none"


\* wrapper(*args, **kwargs) -> execute_async_with_fallback(operation_name,
\* func, *args, **kwargs) -> "result = await primary_func(*args, **kwargs)"
MethodCall(op, c) ==
    /\ call_pc = "idle"
    /\ call_op' = op
    /\ call_args' = c.args
    /\ call_kwargs' = c.kwargs
    /\ primary_bound' = Bind(PrimaryParams[op], Defaults(op), c.args, c.kwargs)
    /\ call_pc' = "primary"
    /\ UNCHANGED <<handler_bound, call_result>>

\* The primary's body returns: "return result".
PrimaryReturns ==
    /\ call_pc = "primary"
    /\ call_pc' = "returned"
    /\ call_result' = "primary"
    /\ UNCHANGED <<call_op, call_args, call_kwargs, primary_bound, handler_bound>>

\* The primary's body raises: "except Exception as e".
PrimaryRaises ==
    /\ call_pc = "primary"
    /\ call_pc' = "fallback"
    /\ UNCHANGED <<call_op, call_args, call_kwargs, primary_bound, handler_bound,
                   call_result>>

\* "result = await fallback_func(*args, **kwargs)" for the handler the
\* constructor registered.  The three handlers return once their parameters
\* are bound; a TypeError is caught by "except Exception as fallback_error",
\* and with the chain used up the bare raise re-raises the primary's error.
HandlerCalled ==
    /\ call_pc = "fallback"
    /\ LET b == BindMethod(Instance, HandlerParams[call_op], Defaults(call_op),
                           call_args, call_kwargs)
       IN  /\ handler_bound' = b
           /\ IF b.ok THEN call_pc' = "returned" /\ call_result' = "fallback"
                      ELSE call_pc' = "raised" /\ UNCHANGED call_result
    /\ UNCHANGED <<call_op, call_args, call_kwargs, primary_bound>>

ArgsNext ==
    \/ \E op \in DecoratedMethods : \E c \in MethodCalls(op) :
          MethodCall(op, c) /\ UNCHANGED OtherThanArgs
    \/ PrimaryReturns /\ UNCHANGED OtherThanArgs
    \/ PrimaryRaises /\ UNCHANGED OtherThanArgs
    \/ HandlerCalled /\ UNCHANGED OtherThanArgs

(***************************************************************************)
(* The constructors of the components and the process-wide registry        *)
(***************************************************************************)
\* What _register_fallbacks of each class registers.
Registrations ==
    [EmailSender |->
        <<[op |-> "send_email", handler |-> "_fallback_log_email_only",
           priority |-> 1]>>,
     WebScraper |->
        <<[op |-> "scrape_page_content",
           handler |-> "_fallback_scrape_with_requests", priority |-> 1],
          [op |-> "scrape_single_website", handler |-> "_fallback_scrape_basic",
           priority |-> 1]>>,
     GeminiAIClient |->
        <<[op |-> "generate_cold_email",
           handler |-> "_fallback_generate_template_email", priority |-> 1]>>]

Classes == DOMAIN Registrations

\* self.ai_client, self.email_sender and self.web_scraper of the
\* ApplicationController, self.email_sender of the EmailManager.
Attributes ==
    [ai_client |-> "GeminiAIClient", email_sender |-> "EmailSender",
     web_scraper |-> "WebScraper", manager_email_sender |-> "EmailSender"]

\* FallbackManager.register_fallback on the registry reg.
Register(reg, op, h) ==
    [n \in DOMAIN reg \cup {op} |->
        IF n = op THEN AppendAndSort(IF op \in DOMAIN reg THEN reg[op] ELSE <<>>, h)
                  ELSE reg[n]]

\* _register_fallbacks of instance number k: the handlers are the bound
\* methods of that instance.
RECURSIVE RegisterFallbacks(_, _, _)
RegisterFallbacks(reg, regs, k) ==
    IF regs = <<>> THEN reg
    ELSE RegisterFallbacks(
            Register(reg, Head(regs).op,
                     [priority |-> Head(regs).priority,
                      func |-> [name |-> Head(regs).handler, instance |-> k]]),
            Tail(regs), k)

RegistryInit ==
    /\ modules_initialized = FALSE
    /\ instances = [c \in Classes |-> 0]
    /\ registry = <<>>
    /\ held = [a \in DOMAIN Attributes |-> 0]


\* "self.attribute = cls(...)" for each of the attributes, "cls(...)" for
\* each of the classes; every __init__ ends with self._register_fallbacks().
Construct(classes, attributes) ==
    /\ \A c \in classes : instances[c] < MaxInstances
    /\ held' = [a \in DOMAIN Attributes |->
                  IF a \in attributes THEN instances[Attributes[a]] + 1
                                      ELSE held[a]]
    /\ instances' = [c \in Classes |->
                        IF c \in classes THEN instances[c] + 1 ELSE instances[c]]
    /\ registry' =
          LET ai == IF "GeminiAIClient" \in classes
                      THEN RegisterFallbacks(registry, Registrations.GeminiAIClient,
                                             instances.GeminiAIClient + 1)
                      ELSE registry
              es == IF "EmailSender" \in classes
                      THEN RegisterFallbacks(ai, Registrations.EmailSender,
                                             instances.EmailSender + 1)
                      ELSE ai
          IN  IF "WebScraper" \in classes
                THEN RegisterFallbacks(es, Registrations.WebScraper,
                                       instances.WebScraper + 1)
                ELSE es

\* ApplicationController.initialize_modules: the AI client if an API key is
\* configured, the email sender if SMTP is configured, the scraper always.
InitializeModules(has_api_key, has_smtp_config) ==
    /\ ~modules_initialized
    /\ modules_initialized' = TRUE
    /\ Construct({"WebScraper"}
                 \cup (IF has_api_key THEN {"GeminiAIClient"} ELSE {})
                 \cup (IF has_smtp_config THEN {"EmailSender"} ELSE {}),
                 {"web_scraper"}
                 \cup (IF has_api_key THEN {"ai_client"} ELSE {})
                 \cup (IF has_smtp_config THEN {"email_sender"} ELSE {}))

\* ApplicationController.update_gemini_config
UpdateGeminiConfig ==
    /\ modules_initialized
    /\ Construct({"GeminiAIClient"}, {"ai_client"})
    /\ UNCHANGED modules_initialized

\* ApplicationController.update_smtp_config
UpdateSmtpConfig ==
    /\ modules_initialized
    /\ Construct({"EmailSender"}, {"email_sender"})
    /\ UNCHANGED modules_initialized

\* EmailManager.configure_smtp
ConfigureSmtp ==
    /\ modules_initialized
    /\ Construct({"EmailSender"}, {"manager_email_sender"})
    /\ UNCHANGED modules_initialized

\* WebCrawler._fallback_scraping: "scraper = WebScraper()", a local.
FallbackScraping ==
    /\ modules_initialized
    /\ Construct({"WebScraper"}, {})
    /\ UNCHANGED modules_initialized

RegistryNext ==
    \/ \E k, c \in BOOLEAN : InitializeModules(k, c) /\ UNCHANGED OtherThanRegistry
    \/ UpdateGeminiConfig /\ UNCHANGED OtherThanRegistry
    \/ UpdateSmtpConfig /\ UNCHANGED OtherThanRegistry
    \/ ConfigureSmtp /\ UNCHANGED OtherThanRegistry
    \/ FallbackScraping /\ UNCHANGED OtherThanRegistry

(***************************************************************************)
(* WebScraper.scrape_single_website: _retry_with_backoff around the        *)
(* retry-decorated _scrape_page_content                                    *)
(***************************************************************************)
\* What _scrape_page_content raises when the page cannot be loaded.
FetchErrors ==
    {NewException("RetryableException", <<"Server", "error", "503">>),
     NewException("NetworkException", <<"HTTP", "404", "error">>)}

\* raise RuntimeError("Browser not initialized. Use async context manager.")
BrowserNotInitialized ==
    NewException("RuntimeError", <<"Browser", "not", "initialized">>)

\* "except (PlaywrightTimeoutError, NetworkException, RetryableException)"
BackoffCatches(e) ==
    IsInstance(e, {"PlaywrightTimeoutError", "NetworkException", "RetryableException"})

\* "if attempt == self.max_retries": the last iteration of range(max_retries + 1)
LastBackoffAttempt(a, retries) == a = retries

\* raise ScraperException(error_msg) from e
ScrapeFailed(e) ==
    [cls |-> "ScraperException", msg |-> <<"Failed", "to", "scrape">>,
     retry_count |-> NoAttr, cause |-> e]

\* The "scrape_page_content" handler is the bound method
\* self._fallback_scrape_with_requests(url), called with the wrapper's *args.
PageHandlerBinds ==
    \A url \in ArgValues("url") :
        BindMethod(Instance, <<"self", "url">>, NoBinding, <<Instance, url>>,
                   NoBinding).ok

ScrapeInit ==
    /\ max_retries \in 0..MaxRetries
    /\ browser \in BOOLEAN
    /\ scrape_pc = "idle"
    /\ backoff_attempt = 0
    /\ decorator_attempt = 0
    /\ page_fetches = 0
    /\ scrape_error = NoException

ScrapeIdle ==
    /\ max_retries = 3
    /\ browser = FALSE
    /\ scrape_pc = "idle"
    /\ backoff_attempt = 0
    /\ decorator_attempt = 0
    /\ page_fetches = 0
    /\ scrape_error = NoException


\* scrape_single_website(url): _validate_url, then the first iteration of
\* _retry_with_backoff and of the decorator's loop.
ScrapeSingleWebsite(valid) ==
    /\ scrape_pc = "idle"
    /\ IF valid
         THEN /\ scrape_pc' = "fetching"
              /\ UNCHANGED scrape_error
         ELSE /\ scrape_pc' = "raised"
              /\ scrape_error' =
                    NewException("ValidationException", <<"Invalid", "URL">>)
    /\ UNCHANGED <<max_retries, browser, backoff_attempt, decorator_attempt,
                   page_fetches>>

\* The decorator's attempt has failed with e and the handler of
\* "scrape_page_content" has not produced a result: the decorator's except
\* block, then that of _retry_with_backoff, then that of
\* scrape_single_website.
AfterFailedAttempt(e) ==
    IF IsRetryableException(e, ScrapePageConfig)
       /\ ~NoMoreAttempts(decorator_attempt, ScrapePageConfig)
      THEN \* await asyncio.sleep(delay) of the decorator
           /\ scrape_pc' = "retry_sleep"
           /\ scrape_error' = e
           /\ UNCHANGED <<backoff_attempt, decorator_attempt>>
      ELSE LET raised == IF IsRetryableException(e, ScrapePageConfig)
                           THEN ExhaustedException("async", e, ScrapePageConfig)
                           ELSE e
           IN  IF BackoffCatches(raised)
                  /\ ~LastBackoffAttempt(backoff_attempt, max_retries)
                 THEN \* await asyncio.sleep(delay) of _retry_with_backoff
                      /\ scrape_pc' = "backoff_sleep"
                      /\ scrape_error' = raised
                      /\ UNCHANGED <<backoff_attempt, decorator_attempt>>
                 ELSE /\ scrape_pc' = "raised"
                      /\ scrape_error' = ScrapeFailed(raised)
                      /\ UNCHANGED <<backoff_attempt, decorator_attempt>>

\* One call of the body of _scrape_page_content: page.goto and what follows.
\* ok says whether the page loaded; handler_ok whether the fallback handler,
\* if its call binds, fetched the page with aiohttp.
ScrapePageContent(ok, e, handler_ok) ==
    /\ scrape_pc = "fetching"
    /\ IF ~browser
         THEN /\ UNCHANGED page_fetches
              /\ IF PageHandlerBinds /\ handler_ok
                   THEN /\ scrape_pc' = "returned"
                        /\ UNCHANGED <<scrape_error, backoff_attempt,
                                       decorator_attempt>>
                   ELSE AfterFailedAttempt(BrowserNotInitialized)
         ELSE /\ page_fetches' = page_fetches + 1
              /\ IF ok \/ (PageHandlerBinds /\ handler_ok)
                   THEN /\ scrape_pc' = "returned"
                        /\ UNCHANGED <<scrape_error, backoff_attempt,
                                       decorator_attempt>>
                   ELSE AfterFailedAttempt(e)
    /\ UNCHANGED <<max_retries, browser>>

\* The decorator's sleep ends: its next attempt.
ScrapeRetryWake ==
    /\ scrape_pc = "retry_sleep"
    /\ scrape_pc' = "fetching"
    /\ decorator_attempt' = decorator_attempt + 1
    /\ UNCHANGED <<max_retries, browser, backoff_attempt, page_fetches,
                   scrape_error>>

\* The sleep of _retry_with_backoff ends: it calls the decorated
\* _scrape_page_content again, which starts its attempts anew.
ScrapeBackoffWake ==
    /\ scrape_pc = "backoff_sleep"
    /\ scrape_pc' = "fetching"
    /\ backoff_attempt' = backoff_attempt + 1
    /\ decorator_attempt' = 0
    /\ UNCHANGED <<max_retries, browser, page_fetches, scrape_error>>

ScrapeNext ==
    \/ \E valid \in BOOLEAN : ScrapeSingleWebsite(valid) /\ UNCHANGED OtherThanScrape
    \/ \E ok, handler_ok \in BOOLEAN, e \in FetchErrors :
          ScrapePageContent(ok, e, handler_ok) /\ UNCHANGED OtherThanScrape
    \/ ScrapeRetryWake /\ UNCHANGED OtherThanScrape
    \/ ScrapeBackoffWake /\ UNCHANGED OtherThanScrape

(***************************************************************************)
(* EmailManager: one background operation at a time                        *)
(* The methods are called one after the other from the thread of the user  *)
(* interface; the operation threads end on their own.                      *)
(***************************************************************************)
\* The thread functions the three start methods hand to threading.Thread.
Targets ==
    [send_emails_async |-> "_send_emails_thread",
     send_single_email_async |-> "_send_single_email_thread",
     retry_failed_emails_async |-> "_retry_failed_emails_thread"]

StartMethods == DOMAIN Targets

\* A guard that lets every start request through.
NeverRunning(current, threads) == FALSE

\* "self._current_operation_thread and self._current_operation_thread.is_alive()"
IsOperationRunning(current, threads) ==
    current # 0 /\ threads[current].alive

\* The operation threads for which is_alive() is true.
Alive == {i \in 1..Len(operation_threads) : operation_threads[i].alive}

EmailManagerInit ==
    /\ email_sender = FALSE
    /\ operation_threads = <<>>
    /\ current_operation_thread = 0
    /\ stop_event = FALSE
    /\ requests = <<>>

WiringIdle == ArgsInit /\ RegistryInit /\ ScrapeIdle /\ EmailManagerInit

\* EmailManager.configure_smtp: the attribute is assigned unless the
\* constructor raises; the returned value is that of the connection test.
ManagerConfigureSmtp(constructed, test_ok) ==
    /\ Len(requests) < MaxRequests
    /\ email_sender' = (email_sender \/ constructed)
    /\ requests' = Append(requests, [method |-> "configure_smtp",
                                     result |-> constructed /\ test_ok])
    /\ UNCHANGED <<operation_threads, current_operation_thread, stop_event>>

\* send_emails_async, send_single_email_async, retry_failed_emails_async
StartAsync(method) ==
    /\ Len(requests) < MaxRequests
    /\ IF ~email_sender
         THEN \* "SMTP not configured": return False
              /\ requests' = Append(requests, [method |-> method, result |-> FALSE])
              /\ UNCHANGED <<operation_threads, current_operation_thread,
                             stop_event>>
         ELSE IF IsOperationRunning(current_operation_thread, operation_threads)
           THEN \* "already in progress": return False
                /\ requests' = Append(requests, [method |-> method, result |-> FALSE])
                /\ UNCHANGED <<operation_threads, current_operation_thread,
                               stop_event>>
           ELSE \* clear(), Thread(target=...), start(), return True
                /\ Len(operation_threads) < MaxThreads
                /\ stop_event' = FALSE
                /\ operation_threads' =
                      Append(operation_threads,
                             [target |-> Targets[method], alive |-> TRUE])
                /\ current_operation_thread' = Len(operation_threads) + 1
                /\ requests' = Append(requests, [method |-> method, result |-> TRUE])
    /\ UNCHANGED email_sender

\* EmailManager.stop_operation: self._stop_operation.set()
StopRequest ==
    /\ Len(requests) < MaxRequests
    /\ stop_event' = TRUE
    /\ requests' = Append(requests, [method |-> "stop_operation", result |-> TRUE])
    /\ UNCHANGED <<email_sender, operation_threads, current_operation_thread>>

\* The thread function of thread i returns.
ThreadEnds(i) ==
    /\ operation_threads[i].alive
    /\ operation_threads' = [operation_threads EXCEPT ![i].alive = FALSE]
    /\ UNCHANGED <<email_sender, current_operation_thread, stop_event, requests>>

EmailManagerNext ==
    \/ \E c, t \in BOOLEAN :
          ManagerConfigureSmtp(c, t) /\ UNCHANGED OtherThanEmailManager
    \/ \E m \in StartMethods : StartAsync(m) /\ UNCHANGED OtherThanEmailManager
    \/ StopRequest /\ UNCHANGED OtherThanEmailManager
    \/ \E i \in 1..Len(operation_threads) :
          ThreadEnds(i) /\ UNCHANGED OtherThanEmailManager

(***************************************************************************)
(* Specifications: one per subsystem, the other subsystems at rest.        *)
(***************************************************************************)
InitBulk == BulkInit /\ RetryIdle /\ FallbackIdle /\ BreakerIdle /\ SendEmailIdle /\ DelayIdle /\ WiringIdle

SpecBulk == InitBulk /\ [][BulkNext]_vars

\* The event loop runs every task that can run, and every send_email call
\* returns or raises; nobody has to call stop_operation.
BulkProgress ==
    \/ \E i \in Items : AcquireAndSend(i) /\ UNCHANGED OtherThanBulk
    \/ \E i \in Items, out \in SendOutcomes, cb \in CallbackOutcomes :
          SendCompletes(i, out, cb) /\ UNCHANGED OtherThanBulk
    \/ \E i \in Items : SleepDone(i) /\ UNCHANGED OtherThanBulk
    \/ GatherAndReturn /\ UNCHANGED OtherThanBulk

SpecBulkFair == InitBulk /\ [][BulkNext]_vars /\ WF_vars(BulkProgress)

InitRetry == BulkIdle /\ RetryInit /\ FallbackIdle /\ BreakerIdle /\ SendEmailIdle /\ DelayIdle /\ WiringIdle

SpecRetry == InitRetry /\ [][RetryNext]_vars

InitFallback == BulkIdle /\ RetryIdle /\ FallbackInit /\ BreakerIdle /\ SendEmailIdle /\ DelayIdle /\ WiringIdle

SpecFallback == InitFallback /\ [][FallbackNext]_vars

InitDecorated == BulkIdle /\ DecoratedInit /\ BreakerIdle /\ SendEmailIdle /\ DelayIdle /\ WiringIdle

SpecDecorated == InitDecorated /\ [][DecoratedNext]_vars

InitBreaker == BulkIdle /\ RetryIdle /\ FallbackIdle /\ BreakerInit /\ SendEmailIdle /\ DelayIdle /\ WiringIdle

SpecBreaker == InitBreaker /\ [][BreakerNext]_vars

InitBreakerThreads == BulkIdle /\ RetryIdle /\ FallbackIdle /\ BreakerThreadsInit /\ SendEmailIdle /\ DelayIdle /\ WiringIdle

SpecBreakerThreads == InitBreakerThreads /\ [][BreakerNext]_vars

InitSendEmail == BulkIdle /\ BreakerIdle /\ SendEmailInit /\ DelayIdle /\ WiringIdle

SpecSendEmail == InitSendEmail /\ [][SendEmailNext]_vars

InitDelay ==
    BulkIdle /\ RetryIdle /\ FallbackIdle /\ BreakerIdle /\ SendEmailIdle /\ DelayInit
             /\ WiringIdle

SpecDelay == InitDelay /\ [][DelayNext]_vars

\* Every subsystem of the retry manager at rest.
ManagerIdle ==
    BulkIdle /\ RetryIdle /\ FallbackIdle /\ BreakerIdle /\ SendEmailIdle /\ DelayIdle

InitArgs == ManagerIdle /\ ArgsInit /\ RegistryInit /\ ScrapeIdle /\ EmailManagerInit

SpecArgs == InitArgs /\ [][ArgsNext]_vars

InitRegistry ==
    ManagerIdle /\ ArgsInit /\ RegistryInit /\ ScrapeIdle /\ EmailManagerInit

SpecRegistry == InitRegistry /\ [][RegistryNext]_vars

InitScrape ==
    ManagerIdle /\ ArgsInit /\ RegistryInit /\ ScrapeInit /\ EmailManagerInit

SpecScrape == InitScrape /\ [][ScrapeNext]_vars

InitEmailManager ==
    ManagerIdle /\ ArgsInit /\ RegistryInit /\ ScrapeIdle /\ EmailManagerInit

SpecEmailManager == InitEmailManager /\ [][EmailManagerNext]_vars

(***************************************************************************)
(* Claims about the retry executor                                         *)
(***************************************************************************)
RetryFinished(p) == r_pc[p] \in {"returned", "raised"}

\* Every call that path p has made so far failed with a retryable error.
AlwaysFailedRetryable(p) ==
    \A n \in 1..r_calls[p] :
        /\ op_outcomes[n] # NoException
        /\ IsRetryableException(op_outcomes[n], retry_config)

\* C4: with max_attempts = k >= 1 and an operation that fails with a
\* retryable error on every call, either path invokes the operation
\* exactly k times, never more, and then raises the exhausted failure.
C4_AttemptBound ==
    \A p \in Paths :
        /\ r_calls[p] <= retry_config.max_attempts
        /\ (RetryFinished(p) /\ AlwaysFailedRetryable(p)) =>
              /\ r_calls[p] = retry_config.max_attempts
              /\ r_pc[p] = "raised"
              /\ r_exit[p] = "exhausted"
              /\ r_raised[p] =
                    ExhaustedException(p, op_outcomes[r_calls[p]], retry_config)

\* Both paths have made three failing calls under max_attempts = 3 and
\* raised the exhausted failure.
C4_Witness ==
    /\ retry_config.max_attempts = 3
    /\ \A p \in Paths :
          /\ r_exit[p] = "exhausted"
          /\ r_calls[p] = 3
          /\ AlwaysFailedRetryable(p)

\* C5: an operation that fails with a ValidationException is invoked
\* exactly once and that error is re-raised, for every max_attempts and
\* every message text.
C5_ValidationNotRetried ==
    \A p \in Paths :
        (r_calls[p] >= 1 /\ op_outcomes[1].cls = "ValidationException") =>
            /\ r_calls[p] = 1
            /\ r_pc[p] = "raised"
            /\ r_raised[p] = op_outcomes[1]

\* calculate_delay(0), ..., calculate_delay(k - 2) as the run computed them.
DelaysBetween(k) ==
    [n \in 1..(k - 1) |-> calculate_delay(retry_config, n - 1, jitter_draws[n])]

Positive(d) == d > 0

NetworkError == NewException("NetworkException", <<"host", "unreachable">>)

\* max_attempts = 3, base_delay = 1, jitter off; two network failures, then
\* a success: sleeps of 1 and 2 seconds, the result returned, 3 attempts
\* recorded in the statistics.
ExampleRun(p) ==
    (/\ retry_config = NoJitterConfig
     /\ RetryFinished(p)
     /\ SubSeq(op_outcomes, 1, r_calls[p]) =
            <<NetworkError, NetworkError, NoException>>)
        => /\ r_sleeps[p] = <<10, 20>>
           /\ r_pc[p] = "returned"
           /\ retry_stats[p] # NoStats
           /\ retry_stats[p].total_attempts = 3

\* C20 (as stated): the example run, and in general a call that ends after
\* k attempts has slept exactly k - 1 times, with calculate_delay(0..k-2).
C20_SleepsBetweenAttempts ==
    \A p \in Paths :
        /\ ExampleRun(p)
        /\ RetryFinished(p) => r_sleeps[p] = DelaysBetween(r_calls[p])

\* C20 (amended): the example run, and in general a call that ends after k
\* attempts has slept once for each of calculate_delay(0..k-2) that is
\* positive, in that order; a delay of 0 is not slept.
C20_PositiveSleepsBetweenAttempts ==
    \A p \in Paths :
        /\ ExampleRun(p)
        /\ RetryFinished(p) =>
              r_sleeps[p] = SelectSeq(DelaysBetween(r_calls[p]), Positive)

\* Both paths have completed the example run.
C20_Witness ==
    /\ retry_config = NoJitterConfig
    /\ op_outcomes = <<NetworkError, NetworkError, NoException>>
    /\ \A p \in Paths :
          /\ r_pc[p] = "returned"
          /\ r_calls[p] = 3
          /\ r_sleeps[p] = <<10, 20>>
          /\ retry_stats[p].total_attempts = 3

\* The error of the last attempt of path p.
LastError(p) == op_outcomes[r_calls[p]]

C23_LastErrorWithRetryCount ==
    \A p \in Paths :
        r_exit[p] = "exhausted" =>
            IF IsInstance(LastError(p), {"BaseScraperException"})
              THEN r_raised[p] = [LastError(p) EXCEPT
                                    !.retry_count = retry_config.max_attempts - 1]
              ELSE /\ r_raised[p].cls = "RetryableException"
                   /\ r_raised[p].cause = LastError(p)

\* C23 (amended): the same, but retry_count is set to max_attempts - 1 only
\* on an exception that has a retry_count attribute (a RetryableException);
\* any other BaseScraperException is re-raised unchanged.
C23_LastErrorRaised ==
    \A p \in Paths :
        r_exit[p] = "exhausted" =>
            IF IsInstance(LastError(p), {"BaseScraperException"})
              THEN r_raised[p] =
                     IF IsInstance(LastError(p), {"RetryableException"})
                       THEN [LastError(p) EXCEPT
                               !.retry_count = retry_config.max_attempts - 1]
                       ELSE LastError(p)
              ELSE /\ r_raised[p].cls = "RetryableException"
                   /\ r_raised[p].cause = LastError(p)
                   /\ r_raised[p].retry_count = retry_config.max_attempts - 1

\* Three attempts that failed with three different kinds of error, the last
\* one a RetryableException, which was re-raised with retry_count = 2.
C23_Witness ==
    /\ r_exit["sync"] = "exhausted"
    /\ r_calls["sync"] = 3
    /\ op_outcomes[1].cls = "NetworkException"
    /\ op_outcomes[2].cls = "ValueError"
    /\ op_outcomes[3].cls = "RetryableException"
    /\ r_raised["sync"].cls = "RetryableException"
    /\ r_raised["sync"].msg = op_outcomes[3].msg
    /\ r_raised["sync"].retry_count = 2

AuthClasses == {"AIAuthenticationException", "EmailAuthenticationException"}

\* C16: an operation that fails with an auth-kind error is invoked exactly
\* once and the auth error propagates to the caller, under the default
\* RetryConfig and the configs of send_email and generate_cold_email.
C16_AuthNotRetried ==
    \A p \in Paths :
        (r_calls[p] >= 1 /\ op_outcomes[1].cls \in AuthClasses) =>
            /\ r_calls[p] = 1
            /\ r_pc[p] = "raised"
            /\ r_raised[p] = op_outcomes[1]

(***************************************************************************)
(* Claims about send_bulk_emails                                           *)
(***************************************************************************)

\* C1: the SendResult that send_bulk_emails returns satisfies
\* successful_sends + failed_sends = total_emails = N and
\* len(failed_emails) = failed_sends, whatever send_email and the progress
\* callback do for each item.
C1_BulkAccounting ==
    bulk_pc = "returned" =>
        /\ send_result.total_emails = total_emails
        /\ send_result.successful_sends + send_result.failed_sends
              = send_result.total_emails
        /\ Len(send_result.failed_emails) = send_result.failed_sends

\* C2: at most max_concurrent items are between acquiring and releasing the
\* semaphore, in every reachable state of every interleaving.
C2_BoundedConcurrency ==
    max_concurrent >= 1 => Cardinality(InFlight) <= max_concurrent

\* The cap is binding: two items in flight and a third one held back.
C2_Witness ==
    /\ max_concurrent = 2
    /\ Cardinality(InFlight) = 2
    /\ \E i \in Items : task[i] = "pending"

C7_OriginalExceptionReraised ==
    fb_pc = "raised" =>
        /\ fb_primary_exc \in PrimaryErrors
        /\ fb_raised = fb_primary_exc

\* The asynchronous path raised after two handlers were tried and failed.
C7_Witness ==
    /\ fb_pc = "raised"
    /\ fb_path = "async"
    /\ Len(fb_invoked) = 2
    /\ fb_raised = fb_primary_exc

IsSortedByPriority(list) ==
    \A i, j \in 1..Len(list) : i < j => list[i].priority <= list[j].priority

\* C8: after any sequence of registrations each operation's handler list is
\* sorted ascending by priority, and after a primary failure the handlers
\* are invoked in that order, whatever the order of registration.
C8_HandlersInPriorityOrder ==
    /\ \A name \in DOMAIN fallback_handlers :
          IsSortedByPriority(fallback_handlers[name])
    /\ IsSortedByPriority(fb_invoked)
    /\ fb_pc \in {"handlers", "returned", "raised"} =>
          /\ fb_name \in DOMAIN fallback_handlers => 
                fb_invoked = SubSeq(fallback_handlers[fb_name], 1, Len(fb_invoked))
          /\ fb_name \notin DOMAIN fallback_handlers => fb_invoked = <<>>
    /\ fb_pc = "raised" /\ fb_name \in DOMAIN fallback_handlers =>
          fb_invoked = fallback_handlers[fb_name]

\* Handlers registered with priorities 5, 1, 3 in that order were tried as
\* 1, 3, 5.
C8_Witness ==
    /\ fb_pc = "raised"
    /\ fb_invoked = <<[priority |-> 1, func |-> 2], [priority |-> 3, func |-> 3],
                      [priority |-> 5, func |-> 1]>>

(***************************************************************************)
(* Claims about the decorated operations                                   *)
(***************************************************************************)

\* C6: for an operation decorated with retry outside and fallback inside,
\* no registered fallback handler is invoked before the primary
\* implementation has been attempted max_attempts times.
C6_FallbackOnlyAfterRetries ==
    handler_calls > 0 => primary_calls >= retry_config.max_attempts

(***************************************************************************)
(* Claims about CircuitBreaker                                             *)
(***************************************************************************)
Failed(c) == c.invoked /\ c.exc # NoException

Counted(c) == Failed(c) /\ IsInstance(c.exc, {expected_exception})

\* The breaker is fresh but for failure_threshold completed calls, each of
\* which satisfies Kind, and no call is under way.
AfterThresholdCalls(Kind(_)) ==
    /\ calls_begun = failure_threshold
    /\ Len(cb_history) = failure_threshold
    /\ \A i \in 1..Len(cb_history) : Kind(cb_history[i])

\* The step is a call that is rejected and changes nothing of the breaker.
RejectedUnchanged ==
    /\ cb_history' = Append(cb_history, Completed(FALSE, CircuitOpenError))
    /\ func_calls' = func_calls
    /\ UNCHANGED <<state, failure_count, last_failure_time>>

\* The step is the start of a call made before recovery_timeout has elapsed
\* since the last failure.
CallBeforeTimeout ==
    /\ calls_begun' = calls_begun + 1
    /\ now - last_failure_time < recovery_timeout

\* C9 (as stated): from a fresh breaker, after failure_threshold consecutive
\* failing calls the state is OPEN, and the next call made before
\* recovery_timeout has elapsed is rejected without invoking the wrapped
\* operation, leaving state, failure_count and last_failure_time unchanged.
C9_OpenAfterFailingCalls ==
    /\ [](AfterThresholdCalls(Failed) => state = "open")
    /\ [][AfterThresholdCalls(Failed) /\ CallBeforeTimeout
            => RejectedUnchanged]_vars

\* C9 (amended): the same, for calls that fail with an exception of the
\* breaker's expected_exception class.
C9_OpenAfterCountedFailures ==
    /\ [](AfterThresholdCalls(Counted) => state = "open")
    /\ [][AfterThresholdCalls(Counted) /\ CallBeforeTimeout
            => RejectedUnchanged]_vars

\* failure_threshold >= 2 counted failures, then a call that was rejected.
C9_Witness ==
    /\ failure_threshold >= 2
    /\ Len(cb_history) = failure_threshold + 1
    /\ \A i \in 1..failure_threshold : Counted(cb_history[i])
    /\ ~cb_history[failure_threshold + 1].invoked
    /\ caller_raised[1] = CircuitOpenError
    /\ state = "open"
    /\ func_calls = failure_threshold

\* C10: while the HALF_OPEN probe is inside the wrapped operation (its
\* outcome not yet recorded), no other call reaches the wrapped operation.
C10_SingleProbe ==
    [][probe_caller # 0 => func_calls' = func_calls]_vars

\* The step records the outcome of the HALF_OPEN probe.
ProbeCompletes ==
    /\ state = "half_open"
    /\ probe_caller # 0
    /\ probe_caller' = 0

\* C11: when the HALF_OPEN probe completes, the breaker is not left in
\* HALF_OPEN: a probe that succeeded gives CLOSED with failure_count 0, a
\* probe that failed, with any exception, gives OPEN with last_failure_time
\* set to the time of the failure.
C11_ProbeLeavesHalfOpen ==
    [][ProbeCompletes =>
          IF caller_raised'[probe_caller] = NoException
          THEN state' = "closed" /\ failure_count' = 0
          ELSE state' = "open" /\ last_failure_time' = now]_vars

\* The last n entries of the sequence h all satisfy Kind.
LastAll(h, n, Kind(_)) ==
    /\ Len(h) >= n
    /\ \A i \in (Len(h) - n + 1)..Len(h) : Kind(h[i])

\* C12: the breaker moves from CLOSED to OPEN only when the most recent
\* failure_threshold calls all failed (a success in CLOSED restarts the
\* count).
C12_OpensOnConsecutiveFailures ==
    [][state = "closed" /\ state' = "open"
          => LastAll(cb_history', failure_threshold, Failed)]_vars

(***************************************************************************)
(* Claims about cancellation and progress of send_bulk_emails              *)
(***************************************************************************)

\* C13: once the cancel signal has been raised (stop_operation), no
\* send_email call is started for an item that had not yet started.
C13_NoStartAfterStop ==
    [][stop_requested => send_calls' = send_calls]_vars

\* C14: with a progress callback, one progress event has been emitted for
\* every item when the run returns: N events for N items, whether the items
\* succeeded, returned a failure or raised.
C14_OneEventPerItem ==
    (bulk_pc = "returned" /\ has_callback)
        => Len(progress_events) = total_emails

\* C15: the completed counts reported by successive progress events are
\* 1, 2, 3, ...: they follow the order of completion, whatever the input
\* positions of the items that completed.
C15_CountsFollowCompletion ==
    max_concurrent > 1
        => \A k \in 1..Len(progress_events) : progress_events[k] = k

(***************************************************************************)
(* Claims about send_email                                                 *)
(***************************************************************************)
ValidationMessages ==
    {InvalidRecipient(recipient).msg, EmptySubject.msg, EmptyBody.msg}

\* C17: when send_email rejects its input (invalid recipient, empty subject
\* or empty body), no registered fallback handler is invoked and the
\* validation error is what the caller gets.
C17_ValidationNeverFallsBack ==
    (fb_primary_exc.msg \in ValidationMessages) =>
        /\ fb_invoked = <<>>
        /\ fb_pc # "returned"
        /\ r_pc["async"] # "returned"

\* C18: with max_attempts = 3, valid arguments and a transport that fails
\* on every transmission, the transmission has been attempted 3 times when
\* send_email reports the outcome to its caller.
C18_TransmissionRetried ==
    (/\ retry_config.max_attempts = 3
     /\ RetryFinished("async")
     /\ smtp_attempts >= 1
     /\ smtp_failures = smtp_attempts)
        => smtp_attempts = 3

(***************************************************************************)
(* Claims about calculate_delay                                            *)
(***************************************************************************)
ExponentialNoJitter ==
    /\ delay_config.strategy = "exponential_backoff"
    /\ ~delay_config.jitter

\* The computed delays never decrease and never exceed max_delay.
MonotoneAndCapped ==
    /\ \A i \in 1..Len(delays) : delays[i] <= delay_config.max_delay
    /\ \A i \in 1..(Len(delays) - 1) : delays[i + 1] >= delays[i]

\* C19 (as stated): for EXPONENTIAL_BACKOFF without jitter, calculate_delay
\* is non-decreasing in the attempt number and never exceeds max_delay, for
\* every base_delay, backoff_multiplier and max_delay.
C19_DelayMonotoneEveryConfig ==
    ExponentialNoJitter => MonotoneAndCapped

\* C19 (amended): the same, for backoff_multiplier >= 1 and max_delay >= 0.
C19_DelayMonotone ==
    (/\ ExponentialNoJitter
     /\ delay_config.backoff_multiplier.num >= delay_config.backoff_multiplier.den
     /\ delay_config.max_delay >= 0)
        => MonotoneAndCapped

\* Delays that grow and then stay at the cap.
C19_Witness ==
    /\ ExponentialNoJitter
    /\ delay_config.backoff_multiplier.num > delay_config.backoff_multiplier.den
    /\ Len(delays) >= 3
    /\ delays[1] > 0
    /\ delays[1] < delays[2]
    /\ delays[Len(delays)] = delay_config.max_delay
    /\ delays[Len(delays) - 1] = delay_config.max_delay

(***************************************************************************)
(* Claims about termination of send_bulk_emails                            *)
(***************************************************************************)

\* C21: for every list and every max_concurrent >= 0, if every send_email
\* call returns or raises, send_bulk_emails eventually returns, and when it
\* has built its SendResult no item is in flight or not yet started.
C21_BulkRunReturns ==
    /\ <>(bulk_pc = "returned")
    /\ [](bulk_pc = "returned" =>
            \A i \in Items : task[i] \in {"done", "escaped"})

(***************************************************************************)
(* Claims about the order and the end of the fallback chain                *)
(***************************************************************************)
\* The handlers registered for the operation being executed.
Chain ==
    IF fb_name \in DOMAIN fallback_handlers THEN fallback_handlers[fb_name]
                                            ELSE <<>>

\* C24: on both paths, when the primary succeeds no handler is invoked; when
\* it fails the handlers are tried one after the other in the order of the
\* chain, the result of the first one that succeeds is returned and no
\* handler after it is invoked; a failing handler only makes the next one be
\* tried, and the call raises only after every handler was tried.
C24_FirstSuccessfulHandlerWins ==
    /\ Len(fb_invoked) <= Len(Chain)
    /\ fb_invoked = SubSeq(Chain, 1, Len(fb_invoked))
    /\ fb_primary_exc = NoException => fb_invoked = <<>>
    /\ (fb_pc = "returned" /\ fb_invoked = <<>>) => fb_result = "primary"
    /\ (fb_pc = "returned" /\ fb_invoked # <<>>) =>
          /\ fb_primary_exc # NoException
          /\ fb_result = fb_invoked[Len(fb_invoked)].func
    /\ fb_pc = "raised" => fb_invoked = Chain

\* Three handlers are registered; the first failed, the second succeeded and
\* its result was returned; the third was not invoked.
C24_Witness ==
    /\ Len(Chain) = 3
    /\ fb_pc = "returned"
    /\ Len(fb_invoked) = 2
    /\ fb_result = Chain[2].func
    /\ handler_calls = 2

(***************************************************************************)
(* Claims about the arguments of the fallback handlers                     *)
(***************************************************************************)
\* The primary failed and the fallback chain was gone through.
FallbackWasTried == call_pc = "raised" \/ call_result = "fallback"

\* C25: when the primary body of a decorated method fails, the registered
\* handler is called with the same domain arguments the primary received
\* (recipient, subject and body; url; website) and its result becomes the
\* method's result.
C25_HandlerGetsSameArguments ==
    FallbackWasTried =>
        /\ call_pc = "returned"
        /\ call_result = "fallback"
        /\ handler_bound.ok
        /\ \A n \in DomainParams(call_op) :
              handler_bound.bound[n] = primary_bound.bound[n]

(***************************************************************************)
(* Claims about the fallback registry                                      *)
(***************************************************************************)
\* C26: the registry is mutated only by the registrations of start-up: once
\* an operation name has its chain (the first instance of its class has been
\* constructed), the chain stays unchanged, also when update_smtp_config,
\* update_gemini_config or a re-initialisation constructs new instances.
C26_ChainsFixedAfterStartup ==
    [][\A op \in DOMAIN registry : registry'[op] = registry[op]]_vars

(***************************************************************************)
(* Claims about the retry statistics                                       *)
(***************************************************************************)
\* The retry-wrapped calls of path p's operation that have completed.
CompletedCalls(p) == IF RetryFinished(p) THEN 1 ELSE 0

\* C27: the statistics count every call: total_calls is the number of
\* completed calls of the operation, calls that succeeded on their first
\* attempt included; total_calls = successful_calls + failed_calls; and
\* max_attempts_used is the largest number of attempts a call used.
C27_StatsCountEveryCall ==
    \A p \in Paths :
        /\ retry_stats[p].total_calls = CompletedCalls(p)
        /\ retry_stats[p].total_calls =
              retry_stats[p].successful_calls + retry_stats[p].failed_calls
        /\ RetryFinished(p) => retry_stats[p].max_attempts_used = r_calls[p]

(***************************************************************************)
(* Claims about the constant strategies of calculate_delay                 *)
(***************************************************************************)
\* C28: with jitter disabled, FIXED_DELAY returns exactly base_delay for
\* every attempt number and every configuration, base_delay > max_delay
\* included; IMMEDIATE returns 0 for every attempt.
C28_FixedIsBaseDelay ==
    ~delay_config.jitter =>
        \A n \in 1..Len(delays) :
            /\ delay_config.strategy = "fixed_delay" =>
                  delays[n] = delay_config.base_delay
            /\ delay_config.strategy = "immediate" => delays[n] = 0

StartRequested ==
    /\ Len(requests') = Len(requests) + 1
    /\ requests'[Len(requests')].method \in StartMethods

\* C30: at most one operation thread is alive at a time; a start request made
\* while a thread is alive returns False, starts no thread and leaves the stop
\* flag unchanged; and no thread is started, after a stop request or
\* otherwise, before the thread before it has ended.
C30_OneOperationAtATime ==
    [][/\ Cardinality(Alive) <= 1
       /\ (StartRequested /\ Alive # {}) =>
             /\ requests'[Len(requests')].result = FALSE
             /\ operation_threads' = operation_threads
             /\ stop_event' = stop_event
       /\ Len(operation_threads') > Len(operation_threads) => Alive = {}]_vars

\* After configure_smtp a thread was started; a stop request was made while
\* it was running, the start request after it was refused, and once the
\* thread had ended the next start request started the second thread, which
\* is now the only one alive.
C30_Witness ==
    /\ Len(requests) = 5
    /\ requests[1].method = "configure_smtp"
    /\ requests[2].method \in StartMethods /\ requests[2].result
    /\ requests[3].method = "stop_operation"
    /\ requests[4].method \in StartMethods /\ ~requests[4].result
    /\ requests[5].method \in StartMethods /\ requests[5].result
    /\ Len(operation_threads) = 2
    /\ Alive = {2}
    /\ ~stop_event

====
